---------------------------- MODULE Spec2Model ----------------------------
(***************************************************************************)
(* A model of the ingestion / dispatch core of twitchplaysgui.py:          *)
(*   - class Twitch: f_connect, f_reconnect, f_receiveAndParseData,        *)
(*     f_twitchReceiveMessages                                             *)
(*   - f_mainLoop: prune, poll, enqueue/truncate, drain, dispatch          *)
(*   - f_handleMessage / TwitchCommand.f_check / ComputerAction.f_process  *)
(*                                                                         *)
(* Bytes and characters are one-element strings; a bytes object or a str   *)
(* is a sequence of them.  Time is counted in whole seconds, and a          *)
(* timestamp t of the code is kept as its age time.time() - t.             *)
(***************************************************************************)
EXTENDS Integers, Sequences, FiniteSets, TLC

(***************************************************************************)
(* Bounds of the model                                                     *)
(***************************************************************************)
\* Largest number of frames in a byte stream of the parser specification.
MaxFrames == 2
\* Largest number of polls the parser specification cuts a stream into.
MaxChunks == 4
\* Largest number of polls of the loop specification in which bytes arrive.
MaxDataPolls == 2
\* The non-zero rate G_MESSAGE_RATE a run of the loop specification may be configured with.
MaxRate == 2
\* The longest message text of the matching specification.
MaxText == 3

(***************************************************************************)
(* Configuration (the GLOBAL CONSTANTS of the script): the queue length    *)
(* and the worker cap are scaled down; the source sets 20 and 100.         *)
(***************************************************************************)
G_MAX_QUEUE_LENGTH == 2
G_MAX_WORKERS == 1
G_MAX_TIME_TO_WAIT_FOR_LOGIN == 3

\* Ages are kept exactly up to MaxAge; MaxAge stands for MaxAge seconds or more.
\* It lies above every duration the code compares an age with (the login
\* window, and the rate: at an age of the rate the whole queue is released).
MaxAge == (IF MaxRate > G_MAX_TIME_TO_WAIT_FOR_LOGIN THEN MaxRate
           ELSE G_MAX_TIME_TO_WAIT_FOR_LOGIN) + 1

(***************************************************************************)
(* Bytes, characters, sequences                                            *)
(***************************************************************************)
CR == "CR"
LF == "LF"
\* A byte that is not valid UTF-8, and the character U+FFFD that
\* bytes.decode( errors='replace' ) puts in its place.
XFF == "xFF"
REPL == "uFFFD"

Min(a, b) == IF a < b THEN a ELSE b

\* s[a..b] with Python's clamping of a slice: 1-based, inclusive, empty when a > b.
Slice(s, a, b) == SubSeq(s, a, Min(b, Len(s)))

\* Python's s[n:] for n >= 0
From(s, n) == SubSeq(s, n + 1, Len(s))

\* Index (1-based) of the first element of s at or after position i that is in
\* set cs; Len(s) + 1 when there is none.
RECURSIVE IndexOf(_, _, _)
IndexOf(s, cs, i) ==
    IF i > Len(s) THEN Len(s) + 1
    ELSE IF s[i] \in cs THEN i
    ELSE IndexOf(s, cs, i + 1)

UpperToLower ==
    ("A" :> "a") @@ ("B" :> "b") @@ ("C" :> "c") @@ ("D" :> "d") @@ ("E" :> "e") @@
    ("F" :> "f") @@ ("G" :> "g") @@ ("H" :> "h") @@ ("I" :> "i") @@ ("J" :> "j") @@
    ("K" :> "k") @@ ("L" :> "l") @@ ("M" :> "m") @@ ("N" :> "n") @@ ("O" :> "o") @@
    ("P" :> "p") @@ ("Q" :> "q") @@ ("R" :> "r") @@ ("S" :> "s") @@ ("T" :> "t") @@
    ("U" :> "u") @@ ("V" :> "v") @@ ("W" :> "w") @@ ("X" :> "x") @@ ("Y" :> "y") @@
    ("Z" :> "z")

\* str.lower()
Lower(s) == [i \in 1..Len(s) |-> IF s[i] \in DOMAIN UpperToLower THEN UpperToLower[s[i]] ELSE s[i]]

\* bytes.decode( errors='replace' )
Decode(b) == [i \in 1..Len(b) |-> IF b[i] = XFF THEN REPL ELSE b[i]]

\* bytes.split( b' ' ): the pieces between single spaces; one empty piece for b''.
RECURSIVE SplitSp(_)
SplitSp(b) ==
    LET k == IndexOf(b, {" "}, 1)
    IN  IF k > Len(b) THEN << b >>
        ELSE << SubSeq(b, 1, k - 1) >> \o SplitSp(From(b, k))

\* The frame regular expression (Twitch.re_prog, compiled with re.MULTILINE),
\* matched as re matches it: an optional prefix ":name!user " or ":server ", a
\* command of non-space bytes, optional space-led parameters holding no colon,
\* optional trailing text after " :", then CR LF; no field holds CR or LF.
\* A group that did not take part in the match is None.
None == [set |-> FALSE, val |-> <<>>]
Group(x) == [set |-> TRUE, val |-> x]
NoMatch == [matched |-> FALSE]

\* After the command cmd, the rest r of the line (empty, or led by a space), with
\* k the index of the first colon of r past its first byte: the parameters run to
\* the end, or stop before the " :" that opens the trailing text.
MatchTailAt(cmd, r, k) ==
    IF r = <<>> THEN [matched |-> TRUE, g2 |-> cmd, g3 |-> None, g4 |-> None]
    ELSE IF k > Len(r)
         THEN [matched |-> TRUE, g2 |-> cmd, g3 |-> Group(From(r, 1)), g4 |-> None]
    ELSE IF k - 1 >= 2 /\ r[k - 1] = " "
         THEN [matched |-> TRUE, g2 |-> cmd, g3 |-> Group(SubSeq(r, 2, k - 2)),
               g4 |-> Group(From(r, k))]
    ELSE IF k = 2 THEN [matched |-> TRUE, g2 |-> cmd, g3 |-> None, g4 |-> Group(From(r, 2))]
    ELSE NoMatch

MatchTail(cmd, r) == MatchTailAt(cmd, r, IndexOf(r, {":"}, 2))

\* The command is the run of non-space bytes from i to j - 1, and is not empty.
MatchRestAt(s, i, j) ==
    IF j = i THEN NoMatch
    ELSE MatchTail(Group(SubSeq(s, i, j - 1)), SubSeq(s, j, Len(s)))

\* The part of the pattern after the optional prefix, on line s from index i
\* (1-based): command, optional parameters, optional trailing text, end of line.
MatchRest(s, i) == MatchRestAt(s, i, IndexOf(s, {" "}, i))

\* Group 1 for the prefix word w (the bytes between the colon and the space), with
\* b the index of its first "!": the name before the "!", when there is one.
PrefixNameAt(w, b) == IF b <= Len(w) /\ b >= 2 THEN Group(SubSeq(w, 1, b - 1)) ELSE None

PrefixName(w) == PrefixNameAt(w, IndexOf(w, {"!"}, 1))

\* The match with the prefix is preferred to the match without it.
PickMatch(g1, withPrefix, bare) ==
    IF withPrefix.matched
    THEN [matched |-> TRUE, g1 |-> g1,
          g2 |-> withPrefix.g2, g3 |-> withPrefix.g3, g4 |-> withPrefix.g4]
    ELSE IF bare.matched
    THEN [matched |-> TRUE, g1 |-> None, g2 |-> bare.g2, g3 |-> bare.g3, g4 |-> bare.g4]
    ELSE NoMatch

\* j: the index of the first space of s past its first byte.
MatchLineAt(s, j) ==
    PickMatch(PrefixName(SubSeq(s, 2, j - 1)),
              IF Len(s) >= 1 /\ s[1] = ":" /\ j <= Len(s) THEN MatchRest(s, j + 1) ELSE NoMatch,
              MatchRest(s, 1))

\* The whole pattern on the content s of one line (s holds no CR and no LF).
MatchLine(s) == MatchLineAt(s, IndexOf(s, {" "}, 2))

\* re_prog.finditer( buf ) from position p (1-based): the matches in order, each
\* with start (0-based offset), end (0-based offset just past CR LF) and groups.
\* q is the index of the first CR or LF at or after p; a match begins at the
\* start of the buffer or after a LF.
RECURSIVE FindIter(_, _)
FindNext(buf, p, q, m) ==
    IF m.matched
    THEN << [start |-> p - 1, end |-> q + 1, groups |-> m] >> \o FindIter(buf, q + 2)
    ELSE FindIter(buf, p + 1)

FindAt(buf, p, q) ==
    FindNext(buf, p, q,
             IF (p = 1 \/ buf[p - 1] = LF) /\ q + 1 <= Len(buf) /\ buf[q] = CR /\ buf[q + 1] = LF
             THEN MatchLine(SubSeq(buf, p, q - 1)) ELSE NoMatch)

FindIter(buf, p) ==
    IF p > Len(buf) THEN <<>> ELSE FindAt(buf, p, IndexOf(buf, {CR, LF}, p))

\* ( group or b'' )
OrEmpty(g) == IF g.set THEN g.val ELSE <<>>

DecodeAll(ps) == [i \in 1..Len(ps) |-> Decode(ps[i])]

\* One element of l_res: the decoded fields of a match.
FrameOf(m) ==
    [name     |-> Decode(OrEmpty(m.groups.g1)),
     command  |-> Decode(OrEmpty(m.groups.g2)),
     params   |-> DecodeAll(SplitSp(OrEmpty(m.groups.g3))),
     trailing |-> Decode(OrEmpty(m.groups.g4))]

Frames(l_matches) == [i \in 1..Len(l_matches) |-> FrameOf(l_matches[i])]

(***************************************************************************)
(* Twitch.partial is a bytes object (b'' in the class and after f_connect) *)
(* or, after line 879, a list: typ records which.                          *)
(***************************************************************************)
EmptyBytes == [typ |-> "bytes", data |-> <<>>]
EmptyList == [typ |-> "list", data |-> <<>>]

\* The end of f_receiveAndParseData: with no match the buffer is added to the
\* partial buffer (an empty bytes object or an empty list); otherwise the bytes
\* past the last match, if any, replace it.
StoreRest(cleared, l_buffer, l_matches) ==
    IF l_matches = <<>>
    THEN [raised |-> FALSE, frames |-> <<>>,
          partial |-> [typ |-> cleared.typ, data |-> cleared.data \o l_buffer]]
    ELSE [raised |-> FALSE, frames |-> Frames(l_matches),
          partial |-> IF l_matches[Len(l_matches)].end < Len(l_buffer)
                      THEN [typ |-> "bytes", data |-> From(l_buffer, l_matches[Len(l_matches)].end)]
                      ELSE cleared]

ParseJoined(cleared, l_buffer) == StoreRest(cleared, l_buffer, FindIter(l_buffer, 1))

\* The buffer processing of f_receiveAndParseData for a non-empty l_buffer: the
\* frames returned, the partial buffer left, and whether the concatenation of
\* line 878 raised (list + bytes is a TypeError).  A non-empty partial buffer is
\* put before the new bytes and replaced by an empty list.
ParseBuffer(part, l_received) ==
    IF Len(part.data) > 0 /\ part.typ = "list"
    THEN [raised |-> TRUE, frames |-> <<>>, partial |-> part]
    ELSE IF Len(part.data) > 0
    THEN ParseJoined(EmptyList, part.data \o l_received)
    ELSE ParseJoined(part, l_received)

(***************************************************************************)
(* State                                                                   *)
(***************************************************************************)
VARIABLES
    \* class Twitch (g_twitch)
    sock,               \* "none" (None), "unconnected" (created, connect failed), "open"
    partial,            \* Twitch.partial
    login_ok,           \* Twitch.login_ok
    since_login,        \* time.time() - Twitch.login_timestamp
    sent,               \* what the last poll cycle sent on the socket
    reconnects,         \* the p_delay of each f_reconnect call of the last poll cycle
    recvd,              \* what the reads of the last poll cycle collected, and how they ended
    \* globals
    g_connected, g_disabled, g_windowOpen,
    G_MESSAGE_RATE,     \* the configured rate, fixed at start
    \* f_mainLoop
    pc,                 \* where the polling loop stands
    exc,                \* the exception that ended the loop thread, or "none"
    l_activeTasks, l_messageQueue, l_newMessages, l_messagesToHandle,
    since_last_time,    \* time.time() - last_time; Unbound until last_time is assigned
    \* thread_pool: every future submitted so far
    tasks,
    \* environment and history
    nextId,             \* identity given to the next chat event
    dataPolls,          \* polls so far in which bytes arrived
    dropped,            \* chat events refused at the dispatch step
    \* parser specification: the bytes still to deliver and the polls made
    stream, pollLog

twitchVars == << sock, partial, login_ok, since_login, sent, reconnects, recvd >>
globalVars == << g_connected, g_disabled, g_windowOpen, G_MESSAGE_RATE >>
loopVars == << pc, exc, l_activeTasks, l_messageQueue, l_newMessages, l_messagesToHandle,
               since_last_time >>
envVars == << nextId, dataPolls, dropped >>
parseVars == << stream, pollLog >>
vars == << twitchVars, globalVars, loopVars, tasks, envVars, parseVars >>

\* last_time before its first assignment (a local that is not yet bound)
Unbound == 0 - 1

\* An age after d more seconds.
Aged(age, d) == IF age = Unbound THEN Unbound ELSE Min(age + d, MaxAge)

(***************************************************************************)
(* class Twitch                                                            *)
(***************************************************************************)
PRIVMSG == << "P", "R", "I", "V", "M", "S", "G" >>
PING == << "P", "I", "N", "G" >>
RPL_WELCOME == << "0", "0", "1" >>

\* A variant of f_connect that leaves the login flag as it was.
f_connectKeepLogin(tw, connectOk) ==
    [raised      |-> ~connectOk,
     sock        |-> IF connectOk THEN "open" ELSE "unconnected",
     partial     |-> EmptyBytes,
     login_ok    |-> tw.login_ok,
     since_login |-> IF connectOk THEN 0 ELSE tw.since_login]

\* A variant of f_connect that keeps the partial buffer of the old connection.
f_connectKeepPartial(tw, connectOk) ==
    [raised      |-> ~connectOk,
     sock        |-> IF connectOk THEN "open" ELSE "unconnected",
     partial     |-> tw.partial,
     login_ok    |-> FALSE,
     since_login |-> IF connectOk THEN 0 ELSE tw.since_login]

\* f_connect: the old socket is closed, the partial buffer and the login flag are
\* reset, a socket is created and connected, the login is sent and the attempt is
\* timestamped.  connectOk: whether socket.connect and the login send succeed;
\* when they raise, the new socket object is already in self.sock.
f_connect(tw, connectOk) ==
    [raised      |-> ~connectOk,
     sock        |-> IF connectOk THEN "open" ELSE "unconnected",
     partial     |-> EmptyBytes,
     login_ok    |-> FALSE,
     since_login |-> IF connectOk THEN 0 ELSE tw.since_login]

\* f_reconnect: the sleep, then f_connect for the same channel.
f_reconnect(tw, p_delay, connectOk) ==
    f_connect([tw EXCEPT !.since_login = Aged(@, p_delay)], connectOk)

\* What is left of a connection record c (f_connect's result) as Twitch state.
StateOf(c) == [sock |-> c.sock, partial |-> c.partial, login_ok |-> c.login_ok,
               since_login |-> c.since_login]

\* The poll ended by a failing read: f_reconnect was called with delay, and
\* nothing is returned.
AfterReconnect(c, delay) ==
    [frames |-> <<>>, slept |-> delay, reconnects |-> << delay >>,
     exc |-> IF c.raised THEN "ConnectError" ELSE "none", tw |-> StateOf(c)]

\* The poll ended by a timeout with bytes collected and parsed.
AfterParse(tw, parsed) ==
    [frames |-> parsed.frames, slept |-> 0, reconnects |-> <<>>,
     exc |-> IF parsed.raised THEN "TypeError" ELSE "none",
     tw |-> [tw EXCEPT !.partial = parsed.partial]]

\* A variant of f_receiveAndParseData that parses the bytes already collected
\* when the peer closes, and returns their frames after the reconnect.
f_receiveAndParseDataKeep(tw, data, end, connectOk) ==
    IF end = "error" THEN AfterReconnect(f_reconnect(tw, 1, connectOk), 1)
    ELSE IF end = "closed"
    THEN [AfterReconnect(f_reconnect(tw, 5, connectOk), 5) EXCEPT
              !.frames = IF data = <<>> THEN <<>> ELSE ParseBuffer(tw.partial, data).frames]
    ELSE IF data = <<>>
    THEN [frames |-> <<>>, slept |-> 0, reconnects |-> <<>>, exc |-> "none", tw |-> tw]
    ELSE AfterParse(tw, ParseBuffer(tw.partial, data))

\* A variant of f_receiveAndParseData without the handler of the failing read:
\* the exception of recv leaves the function.
f_receiveAndParseDataRaise(tw, data, end, connectOk) ==
    IF end = "error"
    THEN [frames |-> <<>>, slept |-> 0, reconnects |-> <<>>, exc |-> "ReadError", tw |-> tw]
    ELSE IF end = "closed" THEN AfterReconnect(f_reconnect(tw, 5, connectOk), 5)
    ELSE IF data = <<>>
    THEN [frames |-> <<>>, slept |-> 0, reconnects |-> <<>>, exc |-> "none", tw |-> tw]
    ELSE AfterParse(tw, ParseBuffer(tw.partial, data))

\* A variant of f_receiveAndParseData that empties the partial buffer also when
\* the reads brought nothing.
f_receiveAndParseDataClear(tw, data, end, connectOk) ==
    IF end = "error" THEN AfterReconnect(f_reconnect(tw, 1, connectOk), 1)
    ELSE IF end = "closed" THEN AfterReconnect(f_reconnect(tw, 5, connectOk), 5)
    ELSE IF data = <<>>
    THEN [frames |-> <<>>, slept |-> 0, reconnects |-> <<>>, exc |-> "none",
          tw |-> [tw EXCEPT !.partial = EmptyList]]
    ELSE AfterParse(tw, ParseBuffer(tw.partial, data))

\* f_receiveAndParseData.  data: the bytes the reads of this poll collect before
\* the read that ends it; end: how that last read ends ("timeout", "error",
\* "closed").  Yields the frames, the connection state, the seconds slept in
\* f_reconnect, the delays of the reconnects made and the exception that escapes,
\* if any.
f_receiveAndParseData(tw, data, end, connectOk) ==
    IF end = "error" THEN AfterReconnect(f_reconnect(tw, 1, connectOk), 1)
    ELSE IF end = "closed" THEN AfterReconnect(f_reconnect(tw, 5, connectOk), 5)
    ELSE IF data = <<>>
    THEN [frames |-> <<>>, slept |-> 0, reconnects |-> <<>>, exc |-> "none", tw |-> tw]
    ELSE AfterParse(tw, ParseBuffer(tw.partial, data))

\* A variant of ClassifyOne whose last branch appends a chat event for the frame
\* instead of only printing it.
ClassifyOneAll(f, st, sendOk) ==
    IF f.command = PRIVMSG
    THEN [st EXCEPT !.l_privmsgs = Append(@, [username |-> f.name, message |-> f.trailing])]
    ELSE IF f.command = PING
    THEN IF sendOk THEN [st EXCEPT !.sent = Append(@, "PONG")]
         ELSE [st EXCEPT !.raised = TRUE]
    ELSE IF f.command = RPL_WELCOME
    THEN IF sendOk THEN [st EXCEPT !.sent = Append(@, "JOIN"), !.login_ok = TRUE]
         ELSE [st EXCEPT !.raised = TRUE]
    ELSE [st EXCEPT !.l_privmsgs = Append(@, [username |-> f.name, message |-> f.trailing])]

\* A variant of ClassifyOne that answers every frame that is neither a chat
\* message nor the login numeric with a PONG.
ClassifyOnePongAll(f, st, sendOk) ==
    IF f.command = PRIVMSG
    THEN [st EXCEPT !.l_privmsgs = Append(@, [username |-> f.name, message |-> f.trailing])]
    ELSE IF f.command = RPL_WELCOME
    THEN IF sendOk THEN [st EXCEPT !.sent = Append(@, "JOIN"), !.login_ok = TRUE]
         ELSE [st EXCEPT !.raised = TRUE]
    ELSE IF sendOk THEN [st EXCEPT !.sent = Append(@, "PONG")]
         ELSE [st EXCEPT !.raised = TRUE]

\* A variant of ClassifyOne that lower-cases the username and the text of a chat
\* event when it emits it.
ClassifyOneLower(f, st, sendOk) ==
    IF f.command = PRIVMSG
    THEN [st EXCEPT !.l_privmsgs = Append(@, [username |-> Lower(f.name),
                                              message |-> Lower(f.trailing)])]
    ELSE IF f.command = PING
    THEN IF sendOk THEN [st EXCEPT !.sent = Append(@, "PONG")]
         ELSE [st EXCEPT !.raised = TRUE]
    ELSE IF f.command = RPL_WELCOME
    THEN IF sendOk THEN [st EXCEPT !.sent = Append(@, "JOIN"), !.login_ok = TRUE]
         ELSE [st EXCEPT !.raised = TRUE]
    ELSE st

\* A variant of ClassifyOne that puts a chat event in front of those already
\* collected ( insert( 0, ... ) for append ).
ClassifyOnePrepend(f, st, sendOk) ==
    IF f.command = PRIVMSG
    THEN [st EXCEPT !.l_privmsgs = << [username |-> f.name, message |-> f.trailing] >> \o @]
    ELSE IF f.command = PING
    THEN IF sendOk THEN [st EXCEPT !.sent = Append(@, "PONG")]
         ELSE [st EXCEPT !.raised = TRUE]
    ELSE IF f.command = RPL_WELCOME
    THEN IF sendOk THEN [st EXCEPT !.sent = Append(@, "JOIN"), !.login_ok = TRUE]
         ELSE [st EXCEPT !.raised = TRUE]
    ELSE st

\* One frame of the classification loop of f_twitchReceiveMessages, on loop state
\* st = [l_privmsgs, login_ok, sent, raised].  sendOk: whether sock.send succeeds.
ClassifyOne(f, st, sendOk) ==
    IF f.command = PRIVMSG
    THEN [st EXCEPT !.l_privmsgs = Append(@, [username |-> f.name, message |-> f.trailing])]
    ELSE IF f.command = PING
    THEN IF sendOk THEN [st EXCEPT !.sent = Append(@, "PONG")]
         ELSE [st EXCEPT !.raised = TRUE]
    ELSE IF f.command = RPL_WELCOME
    THEN IF sendOk THEN [st EXCEPT !.sent = Append(@, "JOIN"), !.login_ok = TRUE]
         ELSE [st EXCEPT !.raised = TRUE]
    ELSE st

\* The classification loop over frames i.. ; an exception of send ends it.
RECURSIVE Classify(_, _, _, _)
Classify(frames, i, st, sendOk) ==
    IF i > Len(frames) \/ st.raised THEN st
    ELSE Classify(frames, i + 1, ClassifyOne(frames[i], st, sendOk), sendOk)

\* The login watchdog has fired: f_reconnect( 0 ), and nothing is returned.
AfterWatchdog(r, st, c) ==
    [l_privmsgs |-> <<>>, slept |-> r.slept, reconnects |-> Append(r.reconnects, 0),
     sent |-> st.sent, exc |-> IF c.raised THEN "ConnectError" ELSE "none", tw |-> StateOf(c)]

\* A variant of Watchdog that fires as soon as the login window is reached
\* ( >= for > ).
WatchdogAtWindow(r, st, connectOk) ==
    IF st.raised
    THEN [l_privmsgs |-> <<>>, slept |-> r.slept, reconnects |-> r.reconnects,
          sent |-> st.sent, exc |-> "SendError", tw |-> [r.tw EXCEPT !.login_ok = st.login_ok]]
    ELSE IF ~st.login_ok /\ r.tw.since_login >= G_MAX_TIME_TO_WAIT_FOR_LOGIN
    THEN AfterWatchdog(r, st, f_reconnect([r.tw EXCEPT !.login_ok = st.login_ok], 0, connectOk))
    ELSE [l_privmsgs |-> st.l_privmsgs, slept |-> r.slept, reconnects |-> r.reconnects,
          sent |-> st.sent, exc |-> "none", tw |-> [r.tw EXCEPT !.login_ok = st.login_ok]]

\* A variant of Watchdog that tests the login flag as it was when the poll began,
\* before the frames of the poll were classified.
WatchdogBeforeClassify(r, st, connectOk) ==
    IF st.raised
    THEN [l_privmsgs |-> <<>>, slept |-> r.slept, reconnects |-> r.reconnects,
          sent |-> st.sent, exc |-> "SendError", tw |-> [r.tw EXCEPT !.login_ok = st.login_ok]]
    ELSE IF ~r.tw.login_ok /\ r.tw.since_login > G_MAX_TIME_TO_WAIT_FOR_LOGIN
    THEN AfterWatchdog(r, st, f_reconnect([r.tw EXCEPT !.login_ok = st.login_ok], 0, connectOk))
    ELSE [l_privmsgs |-> st.l_privmsgs, slept |-> r.slept, reconnects |-> r.reconnects,
          sent |-> st.sent, exc |-> "none", tw |-> [r.tw EXCEPT !.login_ok = st.login_ok]]

\* After the classification loop: the login watchdog.
Watchdog(r, st, connectOk) ==
    IF st.raised
    THEN [l_privmsgs |-> <<>>, slept |-> r.slept, reconnects |-> r.reconnects,
          sent |-> st.sent, exc |-> "SendError", tw |-> [r.tw EXCEPT !.login_ok = st.login_ok]]
    ELSE IF ~st.login_ok /\ r.tw.since_login > G_MAX_TIME_TO_WAIT_FOR_LOGIN
    THEN AfterWatchdog(r, st, f_reconnect([r.tw EXCEPT !.login_ok = st.login_ok], 0, connectOk))
    ELSE [l_privmsgs |-> st.l_privmsgs, slept |-> r.slept, reconnects |-> r.reconnects,
          sent |-> st.sent, exc |-> "none", tw |-> [r.tw EXCEPT !.login_ok = st.login_ok]]

\* The frames r of the poll are classified, unless the poll raised.
AfterPoll(r, connectOk, sendOk) ==
    IF r.exc # "none"
    THEN [l_privmsgs |-> <<>>, slept |-> r.slept, reconnects |-> r.reconnects,
          sent |-> <<>>, exc |-> r.exc, tw |-> r.tw]
    ELSE Watchdog(r, Classify(r.frames, 1,
                              [l_privmsgs |-> <<>>, login_ok |-> r.tw.login_ok, sent |-> <<>>,
                               raised |-> FALSE], sendOk),
                  connectOk)

\* f_twitchReceiveMessages: one poll, the classification of its frames, then the
\* login watchdog.
f_twitchReceiveMessages(tw, data, end, connectOk, sendOk) ==
    AfterPoll(f_receiveAndParseData(tw, data, end, connectOk), connectOk, sendOk)

(***************************************************************************)
(* Commands and actions                                                    *)
(***************************************************************************)
\* ComputerAction.f_process: a keyboard action completes; a wait action raises
\* (int() of the bound method self.waitTime.get is a TypeError).
f_process(action) == IF action = "wait" THEN "raise" ELSE "ok"

\* The action loop of f_check for command number c, from action k: the actions
\* invoked, in order, and whether one raised (which ends the loop).
RECURSIVE RunActions(_, _, _)
RunActions(actionList, c, k) ==
    IF k > Len(actionList) THEN [ran |-> <<>>, raised |-> FALSE]
    ELSE IF f_process(actionList[k]) = "raise" THEN [ran |-> << << c, k >> >>, raised |-> TRUE]
    ELSE LET rest == RunActions(actionList, c, k + 1)
         IN  [ran |-> << << c, k >> >> \o rest.ran, raised |-> rest.raised]

\* TwitchCommand.f_check: the action list runs when the command's text, as typed
\* into the widget, equals the message passed in.
f_check(command, c, p_message) ==
    IF command.chatText = p_message
    THEN RunActions(command.actionList, c, 1)
    ELSE [ran |-> <<>>, raised |-> FALSE]

\* A variant of CheckAll whose try is inside the loop over the commands: after a
\* failure in one command the later commands are still checked.
RECURSIVE CheckAllGoesOn(_, _, _)
CheckAllGoesOn(commandList, c, p_message) ==
    IF c > Len(commandList) THEN [ran |-> <<>>, raised |-> FALSE]
    ELSE LET one == f_check(commandList[c], c, p_message)
             rest == CheckAllGoesOn(commandList, c + 1, p_message)
         IN  [ran |-> one.ran \o rest.ran, raised |-> one.raised \/ rest.raised]

\* The loop of f_handleMessage over g_commandList from command c.
RECURSIVE CheckAll(_, _, _)
CheckAll(commandList, c, p_message) ==
    IF c > Len(commandList) THEN [ran |-> <<>>, raised |-> FALSE]
    ELSE LET one == f_check(commandList[c], c, p_message)
             rest == CheckAll(commandList, c + 1, p_message)
         IN  IF one.raised THEN one
             ELSE [ran |-> one.ran \o rest.ran, raised |-> rest.raised]

\* A variant of f_handleMessage that passes the message text on as received,
\* without .lower().
f_handleMessageRaw(p_message, commandList) ==
    LET r == CheckAll(commandList, 1, p_message.message)
    IN  [ran |-> r.ran, caught |-> r.raised, escaped |-> FALSE]

\* A variant of f_handleMessage without the try / except: an exception of an
\* action leaves the function.
f_handleMessageNoTry(p_message, commandList) ==
    LET r == CheckAll(commandList, 1, Lower(p_message.message))
    IN  [ran |-> r.ran, caught |-> FALSE, escaped |-> r.raised]

\* f_handleMessage: every command is checked against the lower-cased message
\* text; an exception is caught and printed.  ran: the actions invoked; caught:
\* whether the except clause ran; escaped: whether an exception left the function.
f_handleMessage(p_message, commandList) ==
    LET r == CheckAll(commandList, 1, Lower(p_message.message))
    IN  [ran |-> r.ran, caught |-> r.raised, escaped |-> FALSE]

(***************************************************************************)
(* The environment of the loop specification                               *)
(***************************************************************************)
CRLF == << CR, LF >>
\* Chat messages of sender "V" in channel "#c", and the server frames used.
ChatFrame(text) ==
    << ":", "V", "!", "v", " " >> \o PRIVMSG \o << " ", "#", "c", " ", ":" >> \o text \o CRLF
TextJump == << "!", "J" >>
TextWait == << "!", "w" >>
TextNone == << "h", "i" >>
PingFrame == PING \o << " ", ":", "t" >> \o CRLF
WelcomeFrame == << ":", "t", " " >> \o RPL_WELCOME \o << " ", "v", " ", ":", "W" >> \o CRLF

\* What the reads of one poll may collect.
PollData ==
    { <<>>,
      WelcomeFrame,
      PingFrame,
      ChatFrame(TextJump),
      ChatFrame(TextWait) \o ChatFrame(TextJump),
      SubSeq(ChatFrame(TextNone), 1, 9),
      From(ChatFrame(TextNone), 9) }

\* The command list the run is started with (the commands the user has set up):
\* "!j" with one keyboard action, "!w" whose second action is a wait, and "!H",
\* typed with a capital letter.
g_commandList ==
    << [chatText |-> << "!", "j" >>, actionList |-> << "keyboard" >>],
       [chatText |-> << "!", "w" >>, actionList |-> << "keyboard", "wait", "keyboard" >>],
       [chatText |-> << "!", "H" >>, actionList |-> << "keyboard" >>] >>

\* The rates a run may be configured with: no batching, or MaxRate seconds.
Rates == {0, MaxRate}

(***************************************************************************)
(* The loop specification                                                  *)
(***************************************************************************)
\* No poll has read in this cycle.
NoRead == [data |-> <<>>, end |-> "none"]

Init ==
    /\ sock = "none" /\ partial = EmptyBytes /\ login_ok = FALSE /\ since_login = MaxAge
    /\ sent = <<>> /\ reconnects = <<>> /\ recvd = NoRead
    /\ g_connected = FALSE /\ g_disabled = FALSE /\ g_windowOpen = TRUE
    /\ G_MESSAGE_RATE \in Rates
    /\ pc = "top" /\ exc = "none"
    /\ l_activeTasks = <<>> /\ l_messageQueue = <<>> /\ l_newMessages = <<>>
    /\ l_messagesToHandle = <<>> /\ since_last_time = Unbound
    /\ tasks = <<>>
    /\ nextId = 1 /\ dataPolls = 0 /\ dropped = <<>>
    /\ stream = <<>> /\ pollLog = <<>>

Twitch == [sock |-> sock, partial |-> partial, login_ok |-> login_ok,
           since_login |-> since_login]

SetTwitch(tw) ==
    /\ sock' = tw.sock /\ partial' = tw.partial /\ login_ok' = tw.login_ok
    /\ since_login' = tw.since_login

\* i_task.done()
Done(t) == tasks[t].state = "done"

\* A variant of Prune that removes nothing.
PruneNothing(active) == active

\* [i_task for i_task in l_activeTasks if not i_task.done()]
Prune(active) == SelectSeq(active, LAMBDA t : ~Done(t))

\* The chat events of one poll, each given its identity.
WithIds(msgs, first) ==
    [i \in 1..Len(msgs) |->
        [username |-> msgs[i].username, message |-> msgs[i].message, id |-> first + i - 1]]

(***************************************************************************)
(* The control plane (tkinter thread)                                      *)
(***************************************************************************)
\* f_handleConnect with a non-empty streamer name: g_connected is set only when
\* f_connect returns.
HandleConnect ==
    /\ g_windowOpen /\ pc = "top"
    /\ \E connectOk \in BOOLEAN :
         LET c == f_connect(Twitch, connectOk)
         IN  /\ SetTwitch(StateOf(c))
             /\ g_connected' = IF c.raised THEN g_connected ELSE TRUE
    /\ UNCHANGED << sent, reconnects, recvd, g_disabled, g_windowOpen, G_MESSAGE_RATE,
                    loopVars, tasks, envVars, parseVars >>

\* The Disable checkbox.
ToggleDisabled ==
    /\ g_windowOpen /\ pc = "top"
    /\ g_disabled' = ~g_disabled
    /\ UNCHANGED << twitchVars, g_connected, g_windowOpen, G_MESSAGE_RATE,
                    loopVars, tasks, envVars, parseVars >>

\* The window is closed: g_window.mainloop() returns and the script clears the flag.
CloseWindow ==
    /\ g_windowOpen /\ pc = "top"
    /\ g_windowOpen' = FALSE
    /\ UNCHANGED << twitchVars, g_connected, g_disabled, G_MESSAGE_RATE,
                    loopVars, tasks, envVars, parseVars >>

(***************************************************************************)
(* f_mainLoop, one iteration in four steps                                 *)
(***************************************************************************)
\* A variant of TickExit that shuts the pool down with its queued futures
\* cancelled ( thread_pool.shutdown( cancel_futures = True ) before exit() ).
TickExitCancels ==
    /\ pc = "top" /\ ~g_windowOpen
    /\ pc' = "exited"
    /\ tasks' = SelectSeq(tasks, LAMBDA task : task.state # "queued")
    /\ UNCHANGED << twitchVars, globalVars, exc, l_activeTasks, l_messageQueue, l_newMessages,
                    l_messagesToHandle, since_last_time, envVars, parseVars >>

\* The stop check at the top of the loop finds the window closed: exit().
TickExit ==
    /\ pc = "top" /\ ~g_windowOpen
    /\ pc' = "exited"
    /\ UNCHANGED << twitchVars, globalVars, exc, l_activeTasks, l_messageQueue, l_newMessages,
                    l_messagesToHandle, since_last_time, tasks, envVars, parseVars >>

\* The sleep of an iteration that does no processing (not connected, or disabled).
TickIdle ==
    /\ pc = "top" /\ g_windowOpen /\ ~(g_connected /\ ~g_disabled)
    /\ \E dt \in 0..1 :
         /\ since_login' = Aged(since_login, dt)
         /\ since_last_time' = Aged(since_last_time, dt)
    /\ UNCHANGED << sock, partial, login_ok, sent, reconnects, recvd, globalVars, pc, exc,
                    l_activeTasks, l_messageQueue, l_newMessages, l_messagesToHandle, tasks,
                    envVars, parseVars >>

\* The sleep, the prune of the finished tasks and the poll of a processing
\* iteration, for one outcome of the sleep, the reads and the network calls.  An
\* exception that escapes f_twitchReceiveMessages ends the thread.
TickPollWith(dt, data, end, connectOk, sendOk) ==
    /\ pc = "top" /\ g_windowOpen /\ g_connected /\ ~g_disabled
    \* a socket that is not connected has nothing to read: recv raises
    /\ sock # "open" => data = <<>> /\ end = "error"
    /\ data # <<>> => dataPolls < MaxDataPolls
    \* bytes read before a failing read are discarded unparsed: one chunk
    \* stands for them all
    /\ end # "timeout" => data \in {<<>>, PingFrame}
    \* the inputs that cannot matter are fixed: nothing is sent without
    \* bytes, and nothing connects on a logged-in connection that reads on
    /\ ~sendOk => data # <<>> /\ end = "timeout"
    /\ ~connectOk => end # "timeout" \/ ~login_ok
    /\ LET r == f_twitchReceiveMessages([Twitch EXCEPT !.since_login = Aged(@, dt)],
                                        data, end, connectOk, sendOk)
       IN  /\ SetTwitch(r.tw)
           /\ sent' = r.sent /\ reconnects' = r.reconnects
           /\ recvd' = [data |-> data, end |-> end]
           /\ since_last_time' = Aged(since_last_time, dt + r.slept)
           /\ dataPolls' = IF data # <<>> THEN dataPolls + 1 ELSE dataPolls
           /\ l_activeTasks' = Prune(l_activeTasks)
           /\ l_newMessages' = WithIds(r.l_privmsgs, nextId)
           /\ nextId' = nextId + Len(r.l_privmsgs)
           /\ exc' = r.exc
           /\ pc' = IF r.exc # "none" THEN "crashed" ELSE "enqueue"
    /\ UNCHANGED << globalVars, l_messageQueue, l_messagesToHandle, tasks, dropped,
                    parseVars >>

\* The sleep, the prune and the poll of a processing iteration.
TickPoll ==
    \E dt \in 0..1, data \in PollData, end \in {"timeout", "error", "closed"},
       connectOk \in BOOLEAN, sendOk \in BOOLEAN :
        TickPollWith(dt, data, end, connectOk, sendOk)

\* A variant of LastN that keeps the oldest n entries ( [:n] for [-n:] ).
FirstN(q, n) == IF Len(q) <= n THEN q ELSE SubSeq(q, 1, n)

\* l_messageQueue[-G_MAX_QUEUE_LENGTH:]
LastN(q, n) == IF Len(q) <= n THEN q ELSE SubSeq(q, Len(q) - n + 1, Len(q))

\* A variant of Enqueue that appends and does not cut.
EnqueueUncut(queue, newMessages) == queue \o newMessages

\* The enqueue step: new messages go to the back, then the queue is cut to its
\* most recent G_MAX_QUEUE_LENGTH entries.
Enqueue(queue, newMessages) ==
    IF newMessages # <<>> THEN LastN(queue \o newMessages, G_MAX_QUEUE_LENGTH) ELSE queue

\* l_newMessages is not read again before the next poll overwrites it, and the
\* record of what the poll cycle read, sent and reconnected ends with the cycle: the
\* model empties them here.
TickEnqueue ==
    /\ pc = "enqueue"
    /\ l_messageQueue' = Enqueue(l_messageQueue, l_newMessages)
    /\ l_newMessages' = <<>> /\ sent' = <<>> /\ reconnects' = <<>> /\ recvd' = NoRead
    /\ pc' = "drain"
    /\ UNCHANGED << sock, partial, login_ok, since_login, globalVars, exc, l_activeTasks,
                    l_messagesToHandle, since_last_time, tasks, envVars, parseVars >>

\* A variant of DrainCount that truncates the ratio before it multiplies
\* ( int( r ) * len for int( r * len ) ).
DrainCountTruncFirst(queue, rate, elapsed) ==
    IF rate = 0 THEN Len(queue) ELSE (elapsed \div rate) * Len(queue)

\* A variant of DrainCount without the special case of rate 0: the ratio is the
\* elapsed time.
DrainCountNoZeroRate(queue, rate, elapsed) ==
    IF rate = 0 THEN (IF elapsed = Unbound THEN 0 ELSE elapsed) * Len(queue)
    ELSE (elapsed * Len(queue)) \div rate

\* n = int( r * len( l_messageQueue ) ), r = 1 or elapsed / rate
DrainCount(queue, rate, elapsed) ==
    IF rate = 0 THEN Len(queue) ELSE (elapsed * Len(queue)) \div rate

\* A variant of Drain that sets last_time in every drain step, also when the
\* count is 0.
DrainResetsAlways(queue, rate, sinceLast) ==
    LET n == DrainCount(queue, rate, sinceLast)
    IN  IF queue = <<>>
        THEN [raised |-> FALSE, handle |-> <<>>, queue |-> queue, since_last_time |-> 0]
        ELSE IF rate # 0 /\ sinceLast = Unbound
        THEN [raised |-> TRUE, handle |-> <<>>, queue |-> queue, since_last_time |-> sinceLast]
        ELSE IF n > 0
        THEN [raised |-> FALSE, handle |-> Slice(queue, 1, n),
              queue |-> From(queue, Min(n, Len(queue))), since_last_time |-> 0]
        ELSE [raised |-> FALSE, handle |-> <<>>, queue |-> queue, since_last_time |-> 0]

\* A variant of Drain that leaves last_time alone when the backlog is empty.
DrainKeepsTimestamp(queue, rate, sinceLast) ==
    LET n == DrainCount(queue, rate, sinceLast)
    IN  IF queue = <<>>
        THEN [raised |-> FALSE, handle |-> <<>>, queue |-> queue, since_last_time |-> sinceLast]
        ELSE IF rate # 0 /\ sinceLast = Unbound
        THEN [raised |-> TRUE, handle |-> <<>>, queue |-> queue, since_last_time |-> sinceLast]
        ELSE IF n > 0
        THEN [raised |-> FALSE, handle |-> Slice(queue, 1, n),
              queue |-> From(queue, Min(n, Len(queue))), since_last_time |-> 0]
        ELSE [raised |-> FALSE, handle |-> <<>>, queue |-> queue, since_last_time |-> sinceLast]

\* A variant of Drain whose deletion goes one entry further than the release
\* ( del l_messageQueue[0:n + 1] ).
DrainDeletesOneMore(queue, rate, sinceLast) ==
    LET n == DrainCount(queue, rate, sinceLast)
    IN  IF queue = <<>>
        THEN [raised |-> FALSE, handle |-> <<>>, queue |-> queue, since_last_time |-> 0]
        ELSE IF rate # 0 /\ sinceLast = Unbound
        THEN [raised |-> TRUE, handle |-> <<>>, queue |-> queue, since_last_time |-> sinceLast]
        ELSE IF n > 0
        THEN [raised |-> FALSE, handle |-> Slice(queue, 1, n),
              queue |-> From(queue, Min(n + 1, Len(queue))), since_last_time |-> 0]
        ELSE [raised |-> FALSE, handle |-> <<>>, queue |-> queue, since_last_time |-> sinceLast]

\* A variant of Drain that releases the entries and leaves them in the backlog
\* ( no del l_messageQueue[0:n] ).
DrainKeepsReleased(queue, rate, sinceLast) ==
    LET n == DrainCount(queue, rate, sinceLast)
    IN  IF queue = <<>>
        THEN [raised |-> FALSE, handle |-> <<>>, queue |-> queue, since_last_time |-> 0]
        ELSE IF rate # 0 /\ sinceLast = Unbound
        THEN [raised |-> TRUE, handle |-> <<>>, queue |-> queue, since_last_time |-> sinceLast]
        ELSE IF n > 0
        THEN [raised |-> FALSE, handle |-> Slice(queue, 1, n), queue |-> queue,
              since_last_time |-> 0]
        ELSE [raised |-> FALSE, handle |-> <<>>, queue |-> queue, since_last_time |-> sinceLast]

\* The drain step on queue when last_time is sinceLast seconds old: the messages
\* to handle, the queue left and the age of last_time after the step (0 when it
\* is set to time.time()); raised when last_time is read before it is bound.
Drain(queue, rate, sinceLast) ==
    LET n == DrainCount(queue, rate, sinceLast)
    IN  IF queue = <<>>
        THEN [raised |-> FALSE, handle |-> <<>>, queue |-> queue, since_last_time |-> 0]
        ELSE IF rate # 0 /\ sinceLast = Unbound
        THEN [raised |-> TRUE, handle |-> <<>>, queue |-> queue, since_last_time |-> sinceLast]
        ELSE IF n > 0
        THEN [raised |-> FALSE, handle |-> Slice(queue, 1, n),
              queue |-> From(queue, Min(n, Len(queue))), since_last_time |-> 0]
        ELSE [raised |-> FALSE, handle |-> <<>>, queue |-> queue, since_last_time |-> sinceLast]

\* A variant of TickDrain that runs in place of the enqueue step: the drain
\* comes before the events of the tick are in the backlog.
TickDrainAtEnqueue ==
    /\ pc = "enqueue"
    /\ LET d == Drain(l_messageQueue, G_MESSAGE_RATE, since_last_time)
       IN  /\ l_messagesToHandle' = d.handle
           /\ l_messageQueue' = d.queue
           /\ since_last_time' = d.since_last_time
           /\ exc' = IF d.raised THEN "UnboundLocalError" ELSE exc
           /\ pc' = IF d.raised THEN "crashed" ELSE "dispatch"
    /\ UNCHANGED << twitchVars, globalVars, l_activeTasks, l_newMessages, tasks, envVars,
                    parseVars >>

TickDrain ==
    /\ pc = "drain"
    /\ LET d == Drain(l_messageQueue, G_MESSAGE_RATE, since_last_time)
       IN  /\ l_messagesToHandle' = d.handle
           /\ l_messageQueue' = d.queue
           /\ since_last_time' = d.since_last_time
           /\ exc' = IF d.raised THEN "UnboundLocalError" ELSE exc
           /\ pc' = IF d.raised THEN "crashed" ELSE "dispatch"
    /\ UNCHANGED << twitchVars, globalVars, l_activeTasks, l_newMessages, tasks, envVars,
                    parseVars >>

\* A variant of Admits that lets one more task in ( <= G_MAX_WORKERS + 1 ).
AdmitsOneMore(active) == Len(active) <= G_MAX_WORKERS + 1

\* len( l_activeTasks ) <= G_MAX_WORKERS
Admits(active) == Len(active) <= G_MAX_WORKERS

\* A variant of Dispatch in which the warning branch does not end the iteration:
\* a refused message is warned about and submitted all the same.
RECURSIVE DispatchWarnAndSubmit(_, _, _)
DispatchWarnAndSubmit(messages, i, st) ==
    IF i > Len(messages) THEN st
    ELSE DispatchWarnAndSubmit(messages, i + 1,
             [st EXCEPT !.tasks = Append(@, [message |-> messages[i], state |-> "queued",
                                             ran |-> <<>>, caught |-> FALSE,
                                             escaped |-> FALSE]),
                        !.active = Append(@, Len(st.tasks) + 1),
                        !.dropped = IF Admits(st.active) THEN @ ELSE Append(@, messages[i])])

\* The dispatch loop over the messages to handle from message i: each is submitted
\* to the pool when the check admits it, and otherwise only warned about.
RECURSIVE Dispatch(_, _, _)
Dispatch(messages, i, st) ==
    IF i > Len(messages) THEN st
    ELSE IF Admits(st.active)
    THEN Dispatch(messages, i + 1,
                  [st EXCEPT !.tasks = Append(@, [message |-> messages[i], state |-> "queued",
                                                  ran |-> <<>>, caught |-> FALSE,
                                                  escaped |-> FALSE]),
                             !.active = Append(@, Len(st.tasks) + 1)])
    ELSE Dispatch(messages, i + 1, [st EXCEPT !.dropped = Append(@, messages[i])])

\* The emergency key check finds shift+backspace pressed: exit().
TickKeyExit ==
    /\ pc = "dispatch"
    /\ pc' = "exited"
    /\ UNCHANGED << twitchVars, globalVars, exc, l_activeTasks, l_messageQueue, l_newMessages,
                    l_messagesToHandle, since_last_time, tasks, envVars, parseVars >>

\* l_messagesToHandle is emptied by the next drain step before it is read again:
\* the model empties it here.
TickDispatch ==
    /\ pc = "dispatch"
    /\ LET st == Dispatch(l_messagesToHandle, 1,
                          [tasks |-> tasks, active |-> l_activeTasks, dropped |-> dropped])
       IN  /\ tasks' = st.tasks /\ l_activeTasks' = st.active /\ dropped' = st.dropped
    /\ l_messagesToHandle' = <<>>
    /\ pc' = "top"
    /\ UNCHANGED << twitchVars, globalVars, exc, l_messageQueue, l_newMessages,
                    since_last_time, nextId, dataPolls, parseVars >>

(***************************************************************************)
(* The worker threads of thread_pool                                       *)
(***************************************************************************)
Running == { t \in 1..Len(tasks) : tasks[t].state = "running" }

\* A variant of TaskStart for a pool that starts a thread for every queued
\* future, whatever the number of futures that are running.
TaskStartUncapped(t) ==
    /\ tasks[t].state = "queued"
    /\ \A u \in 1..(t - 1) : tasks[u].state # "queued"
    /\ tasks' = [tasks EXCEPT ![t].state = "running"]
    /\ UNCHANGED << twitchVars, globalVars, loopVars, envVars, parseVars >>

\* A worker thread takes the oldest queued future; the pool has G_MAX_WORKERS
\* threads.
TaskStart(t) ==
    /\ tasks[t].state = "queued"
    /\ \A u \in 1..(t - 1) : tasks[u].state # "queued"
    /\ Cardinality(Running) < G_MAX_WORKERS
    /\ tasks' = [tasks EXCEPT ![t].state = "running"]
    /\ UNCHANGED << twitchVars, globalVars, loopVars, envVars, parseVars >>

\* f_handleMessage returns in its worker thread: the future is done.  An exception
\* that left f_handleMessage would be kept by the future, which nothing reads.
TaskFinish(t) ==
    /\ tasks[t].state = "running"
    /\ LET h == f_handleMessage(tasks[t].message, g_commandList)
       IN  tasks' = [tasks EXCEPT ![t].state = "done", ![t].ran = h.ran, ![t].caught = h.caught,
                                 ![t].escaped = h.escaped]
    /\ UNCHANGED << twitchVars, globalVars, loopVars, envVars, parseVars >>

Next ==
    \/ HandleConnect
    \/ ToggleDisabled
    \/ CloseWindow
    \/ TickExit
    \/ TickIdle
    \/ TickPoll
    \/ TickEnqueue
    \/ TickDrain
    \/ TickKeyExit
    \/ TickDispatch
    \/ \E t \in 1..Len(tasks) : TaskStart(t)
    \/ \E t \in 1..Len(tasks) : TaskFinish(t)

Spec == Init /\ [][Next]_vars
(***************************************************************************)
(* The parser specification: a connected client is fed a byte stream of    *)
(* legal frames, cut into polls at arbitrary points.                       *)
(***************************************************************************)
\* The legal frames the streams are made of.
ParseFrames == { PingFrame, WelcomeFrame }

\* The concatenations of n legal frames.
RECURSIVE FramesOfCount(_)
FramesOfCount(n) ==
    IF n = 0 THEN { <<>> }
    ELSE { f \o rest : f \in ParseFrames, rest \in FramesOfCount(n - 1) }

\* The byte streams of one to MaxFrames legal frames.
ParseStreams == UNION { FramesOfCount(n) : n \in 1..MaxFrames }

\* A freshly connected client (f_connect has returned) and the stream the server
\* is about to send.
InitParse ==
    /\ sock = "open" /\ partial = EmptyBytes /\ login_ok = FALSE /\ since_login = 0
    /\ sent = <<>> /\ reconnects = <<>> /\ recvd = NoRead
    /\ g_connected = TRUE /\ g_disabled = FALSE /\ g_windowOpen = TRUE
    /\ G_MESSAGE_RATE = 0
    /\ pc = "top" /\ exc = "none"
    /\ l_activeTasks = <<>> /\ l_messageQueue = <<>> /\ l_newMessages = <<>>
    /\ l_messagesToHandle = <<>> /\ since_last_time = Unbound
    /\ tasks = <<>>
    /\ nextId = 1 /\ dataPolls = 0 /\ dropped = <<>>
    /\ stream \in ParseStreams /\ pollLog = <<>>

\* One call of f_receiveAndParseData whose reads collect the next n bytes of the
\* stream and then time out.  The call is logged: the partial buffer before it,
\* the bytes read, the frames returned and the exception raised.  Nothing is
\* polled after an exception.
ParsePoll ==
    /\ stream # <<>> /\ Len(pollLog) < MaxChunks /\ exc = "none"
    /\ \E n \in 1..Len(stream) :
         LET r == f_receiveAndParseData(Twitch, SubSeq(stream, 1, n), "timeout", TRUE)
         IN  /\ SetTwitch(r.tw)
             /\ stream' = From(stream, n)
             /\ pollLog' = Append(pollLog, [before |-> partial, chunk |-> SubSeq(stream, 1, n),
                                            frames |-> r.frames, exc |-> r.exc])
             /\ exc' = r.exc
    /\ UNCHANGED << sent, reconnects, recvd, globalVars, pc, l_activeTasks, l_messageQueue,
                    l_newMessages, l_messagesToHandle, since_last_time, tasks, envVars >>

NextParse == ParsePoll

SpecParse == InitParse /\ [][NextParse]_vars

(***************************************************************************)
(* The matching specification: one chat event, whose text is drawn from    *)
(* the short texts over a few characters, is dispatched to the pool and    *)
(* handled by a worker thread against g_commandList.                       *)
(***************************************************************************)
\* The characters of the message texts: those of the command texts "!j" and
\* "!H", their other letter case, and a character of no command.
MatchChars == { "!", "j", "J", "H", "x" }

\* The texts of exactly n characters.
RECURSIVE TextsOfLen(_)
TextsOfLen(n) ==
    IF n = 0 THEN { <<>> }
    ELSE { << ch >> \o rest : ch \in MatchChars, rest \in TextsOfLen(n - 1) }

\* The message texts of one to MaxText characters.
MatchTexts == UNION { TextsOfLen(n) : n \in 1..MaxText }

\* The loop is about to dispatch one released chat event of a connected client.
InitMatch ==
    /\ sock = "open" /\ partial = EmptyBytes /\ login_ok = TRUE /\ since_login = 0
    /\ sent = <<>> /\ reconnects = <<>> /\ recvd = NoRead
    /\ g_connected = TRUE /\ g_disabled = FALSE /\ g_windowOpen = TRUE
    /\ G_MESSAGE_RATE = 0
    /\ pc = "dispatch" /\ exc = "none"
    /\ l_activeTasks = <<>> /\ l_messageQueue = <<>> /\ l_newMessages = <<>>
    /\ \E text \in MatchTexts :
         l_messagesToHandle = << [username |-> << "V" >>, message |-> text, id |-> 1] >>
    /\ since_last_time = 0
    /\ tasks = <<>>
    /\ nextId = 2 /\ dataPolls = 1 /\ dropped = <<>>
    /\ stream = <<>> /\ pollLog = <<>>

NextMatch ==
    \/ TickDispatch
    \/ \E t \in 1..Len(tasks) : TaskStart(t)
    \/ \E t \in 1..Len(tasks) : TaskFinish(t)

SpecMatch == InitMatch /\ [][NextMatch]_vars

(***************************************************************************)
(* The classification specification: a connected client is fed a stream of *)
(* frames of every kind the classifier tells apart; each poll reads some   *)
(* whole frames and is logged; the rest of the tick runs as in the loop    *)
(* specification.                                                          *)
(***************************************************************************)
JoinFrame == << ":", "v", "!", "v", " ", "J", "O", "I", "N", " ", "#", "c" >> \o CRLF
NoticeFrame == << ":", "t", " ", "N", "O", "T", "I", "C", "E", " ", "*", " ", ":", "n" >> \o CRLF
NumericFrame == << ":", "t", " ", "0", "0", "2", " ", "v", " ", ":", "h" >> \o CRLF
UnknownFrame == << "C", "A", "P" >> \o CRLF

\* The frames the streams are made of: one of each branch of the classifier.
ClassifyFrames == { ChatFrame(TextJump), PingFrame, WelcomeFrame, JoinFrame, NoticeFrame,
                    NumericFrame, UnknownFrame }

\* The concatenations of n such frames.
RECURSIVE ClassifyFramesOfCount(_)
ClassifyFramesOfCount(n) ==
    IF n = 0 THEN { <<>> }
    ELSE { f \o rest : f \in ClassifyFrames, rest \in ClassifyFramesOfCount(n - 1) }

\* The byte streams of one to MaxFrames frames.
ClassifyStreams == UNION { ClassifyFramesOfCount(n) : n \in 1..MaxFrames }

\* Where the reads of one poll may stop in the bytes s still to come: at the end
\* of a frame.
FrameEnds(s) == { i \in 1..Len(s) : s[i] = LF }

\* A freshly connected client (f_connect has returned) at the top of the loop,
\* and the stream the server is about to send.
InitClassify ==
    /\ sock = "open" /\ partial = EmptyBytes /\ login_ok = FALSE /\ since_login = 0
    /\ sent = <<>> /\ reconnects = <<>> /\ recvd = NoRead
    /\ g_connected = TRUE /\ g_disabled = FALSE /\ g_windowOpen = TRUE
    /\ G_MESSAGE_RATE = 0
    /\ pc = "top" /\ exc = "none"
    /\ l_activeTasks = <<>> /\ l_messageQueue = <<>> /\ l_newMessages = <<>>
    /\ l_messagesToHandle = <<>> /\ since_last_time = Unbound
    /\ tasks = <<>>
    /\ nextId = 1 /\ dataPolls = 0 /\ dropped = <<>>
    /\ stream \in ClassifyStreams /\ pollLog = <<>>

\* The record kept of one call of f_twitchReceiveMessages: the connection before
\* it, what its reads collected and how they ended, the frames
\* f_receiveAndParseData returned, and the result r of the call.
PollRecord(before, data, end, frames, r) ==
    [before |-> before, data |-> data, end |-> end, frames |-> frames,
     l_privmsgs |-> r.l_privmsgs, sent |-> r.sent, reconnects |-> r.reconnects,
     exc |-> r.exc, after |-> r.tw]

\* The prune and the poll of a processing iteration, as TickPoll, the reads
\* collecting the next n bytes of the stream; the polls follow each other within
\* the second.  A poll whose read fails has read nothing before.  Only the last
\* poll is kept in pollLog.
ClassifyPoll ==
    /\ pc = "top" /\ g_windowOpen /\ g_connected /\ ~g_disabled
    /\ \E n \in {0} \cup FrameEnds(stream), end \in {"timeout", "error", "closed"},
          connectOk \in BOOLEAN, sendOk \in BOOLEAN :
         LET data == SubSeq(stream, 1, n)
             r == f_twitchReceiveMessages(Twitch, data, end, connectOk, sendOk)
         IN  /\ end # "timeout" => n = 0
             /\ ~sendOk => n > 0
             /\ ~connectOk => end # "timeout"
             /\ SetTwitch(r.tw)
             /\ sent' = r.sent /\ reconnects' = r.reconnects
             /\ recvd' = [data |-> data, end |-> end]
             /\ since_last_time' = Aged(since_last_time, r.slept)
             /\ dataPolls' = IF n > 0 THEN dataPolls + 1 ELSE dataPolls
             /\ l_activeTasks' = Prune(l_activeTasks)
             /\ l_newMessages' = WithIds(r.l_privmsgs, nextId)
             /\ nextId' = nextId + Len(r.l_privmsgs)
             /\ exc' = r.exc
             /\ pc' = IF r.exc # "none" THEN "crashed" ELSE "enqueue"
             /\ stream' = From(stream, n)
             /\ pollLog' = << PollRecord(Twitch, data, end,
                                         f_receiveAndParseData(Twitch, data, end, connectOk).frames,
                                         r) >>
    /\ UNCHANGED << globalVars, l_messageQueue, l_messagesToHandle, tasks, dropped >>

\* The pool's threads are not scheduled in this specification: the submitted
\* tasks stay queued.
NextClassify ==
    \/ ClassifyPoll
    \/ TickEnqueue
    \/ TickDrain
    \/ TickDispatch

SpecClassify == InitClassify /\ [][NextClassify]_vars

\* The loop specification with the scheduling the claims about termination rely
\* on: the loop thread keeps running, so the stop check is made when the loop is
\* at the top of an iteration.
SpecStop == Spec /\ WF_vars(TickExit)

(***************************************************************************)
(* The drain specification: a logged-in client whose backlog holds events  *)
(* and whose rate is not zero; the polls return and time advances.         *)
(***************************************************************************)
\* A backlog of n chat events, in the order of their arrival.
BacklogOf(n) == [i \in 1..n |-> [username |-> << "V" >>, message |-> TextJump, id |-> i]]

\* The loop is at the top of an iteration; the drain of the tick before has
\* found the backlog too young to release anything, or the backlog empty before
\* these events arrived.
InitDrain ==
    /\ sock = "open" /\ partial = EmptyBytes /\ login_ok = TRUE /\ since_login = 0
    /\ sent = <<>> /\ reconnects = <<>> /\ recvd = NoRead
    /\ g_connected = TRUE /\ g_disabled = FALSE /\ g_windowOpen = TRUE
    /\ G_MESSAGE_RATE \in 1..MaxRate
    /\ pc = "top" /\ exc = "none"
    /\ l_activeTasks = <<>> /\ l_newMessages = <<>> /\ l_messagesToHandle = <<>>
    /\ \E n \in 1..G_MAX_QUEUE_LENGTH : l_messageQueue = BacklogOf(n) /\ nextId = n + 1
    /\ since_last_time = 0
    /\ tasks = <<>>
    /\ dataPolls = 1 /\ dropped = <<>>
    /\ stream = <<>> /\ pollLog = <<>>

\* A poll in which the first read times out, or one that reads one chat line.
TickGoesOn ==
    \E dt \in 0..1, data \in {<<>>, ChatFrame(TextJump)} :
        TickPollWith(dt, data, "timeout", TRUE, TRUE)

\* Such a poll in a tick in which the clock is seen to advance.
TickSecond ==
    \E data \in {<<>>, ChatFrame(TextJump)} : TickPollWith(1, data, "timeout", TRUE, TRUE)

NextDrain ==
    \/ TickGoesOn
    \/ TickEnqueue
    \/ TickDrain
    \/ TickDispatch
    \/ \E t \in 1..Len(tasks) : TaskStart(t)
    \/ \E t \in 1..Len(tasks) : TaskFinish(t)

\* The ticks continue (the loop thread keeps running) and time advances.
SpecDrain ==
    /\ InitDrain /\ [][NextDrain]_vars
    /\ WF_vars(TickGoesOn) /\ WF_vars(TickEnqueue) /\ WF_vars(TickDrain) /\ WF_vars(TickDispatch)
    /\ SF_vars(TickSecond)

(***************************************************************************)
(* The two threads on the connection: the poll of the loop thread in two   *)
(* steps (the reads, then the processing of what was read), and the        *)
(* Connect button of the tkinter thread, which takes no lock and can run   *)
(* between the two.                                                        *)
(***************************************************************************)
\* One entry of the log of the operations on the connection since the last read.
ConnOp(op, tw) == [op |-> op, tw |-> tw]

InitRace ==
    /\ sock = "open" /\ partial = EmptyBytes /\ login_ok \in BOOLEAN /\ since_login = 0
    /\ sent = <<>> /\ reconnects = <<>> /\ recvd = NoRead
    /\ g_connected = TRUE /\ g_disabled = FALSE /\ g_windowOpen = TRUE
    /\ G_MESSAGE_RATE = 0
    /\ pc = "top" /\ exc = "none"
    /\ l_activeTasks = <<>> /\ l_messageQueue = <<>> /\ l_newMessages = <<>>
    /\ l_messagesToHandle = <<>> /\ since_last_time = Unbound
    /\ tasks = <<>>
    /\ nextId = 1 /\ dataPolls = 0 /\ dropped = <<>>
    /\ stream = <<>> /\ pollLog = <<>>

\* The loop thread sleeps, prunes and enters the poll; the reads of
\* f_receiveAndParseData return data and end as they do (recv releases the
\* interpreter lock while it waits).
RaceRead ==
    /\ pc = "top" /\ g_windowOpen /\ g_connected /\ ~g_disabled
    /\ \E dt \in 0..1, data \in {<<>>, WelcomeFrame, PingFrame, ChatFrame(TextJump)},
          end \in {"timeout", "error"} :
         /\ sock # "open" => data = <<>> /\ end = "error"
         /\ data # <<>> => dataPolls < MaxDataPolls /\ end = "timeout"
         /\ since_login' = Aged(since_login, dt)
         /\ since_last_time' = Aged(since_last_time, dt)
         /\ recvd' = [data |-> data, end |-> end]
         /\ dataPolls' = IF data # <<>> THEN dataPolls + 1 ELSE dataPolls
         /\ pollLog' = << ConnOp("read", [Twitch EXCEPT !.since_login = Aged(@, dt)]) >>
    /\ l_activeTasks' = Prune(l_activeTasks)
    /\ sent' = <<>> /\ reconnects' = <<>>
    /\ pc' = "polled"
    /\ UNCHANGED << sock, partial, login_ok, globalVars, exc, l_messageQueue, l_newMessages,
                    l_messagesToHandle, tasks, nextId, dropped, stream >>

\* The loop thread goes on with what it has read, on the connection state as it
\* is by now: the rest of f_receiveAndParseData, the classification, the watchdog.
RaceFinish ==
    /\ pc = "polled"
    /\ \E connectOk \in BOOLEAN, sendOk \in BOOLEAN :
         LET r == f_twitchReceiveMessages(Twitch, recvd.data, recvd.end, connectOk, sendOk)
         IN  /\ ~sendOk => recvd.data # <<>>
             /\ ~connectOk => recvd.end # "timeout" \/ ~login_ok
             /\ SetTwitch(r.tw)
             /\ sent' = r.sent /\ reconnects' = r.reconnects
             /\ since_last_time' = Aged(since_last_time, r.slept)
             /\ l_newMessages' = WithIds(r.l_privmsgs, nextId)
             /\ nextId' = nextId + Len(r.l_privmsgs)
             /\ exc' = r.exc
             /\ pc' = IF r.exc # "none" THEN "crashed" ELSE "enqueue"
             /\ pollLog' = Append(pollLog, ConnOp("finish", r.tw))
    /\ UNCHANGED << recvd, globalVars, l_activeTasks, l_messageQueue, l_messagesToHandle,
                    tasks, dataPolls, dropped, stream >>

\* f_handleConnect on the tkinter thread, wherever the loop thread is.  Inside a
\* poll it is logged once: a second press there leaves the state of the first.
RaceConnect ==
    /\ g_windowOpen /\ pc \in {"top", "polled"}
    /\ pc = "polled" => Len(pollLog) < 2
    /\ \E connectOk \in BOOLEAN :
         LET c == f_connect(Twitch, connectOk)
         IN  /\ SetTwitch(StateOf(c))
             /\ g_connected' = IF c.raised THEN g_connected ELSE TRUE
             /\ pollLog' = IF pc = "polled" THEN Append(pollLog, ConnOp("connect", StateOf(c)))
                           ELSE <<>>
    /\ UNCHANGED << sent, reconnects, recvd, g_disabled, g_windowOpen, G_MESSAGE_RATE,
                    loopVars, tasks, envVars, stream >>

NextRace ==
    \/ RaceRead
    \/ RaceConnect
    \/ RaceFinish
    \/ TickEnqueue
    \/ TickDrain
    \/ TickDispatch

SpecRace == InitRace /\ [][NextRace]_vars

(***************************************************************************)
(* The capacity specification: the active set is full and a message has    *)
(* been refused; the polls return and the worker threads run.              *)
(***************************************************************************)
\* The task submitted for chat event number i, not yet started.
QueuedTask(i) ==
    [message |-> [username |-> << "V" >>, message |-> TextJump, id |-> i],
     state |-> "queued", ran |-> <<>>, caught |-> FALSE, escaped |-> FALSE]

\* The loop is at the top of an iteration after a dispatch step that found
\* G_MAX_WORKERS + 1 tasks in the active set and refused the next message.
InitPrune ==
    /\ sock = "open" /\ partial = EmptyBytes /\ login_ok = TRUE /\ since_login = 0
    /\ sent = <<>> /\ reconnects = <<>> /\ recvd = NoRead
    /\ g_connected = TRUE /\ g_disabled = FALSE /\ g_windowOpen = TRUE
    /\ G_MESSAGE_RATE = 0
    /\ pc = "top" /\ exc = "none"
    /\ tasks = [i \in 1..(G_MAX_WORKERS + 1) |-> QueuedTask(i)]
    /\ l_activeTasks = [i \in 1..(G_MAX_WORKERS + 1) |-> i]
    /\ dropped = << QueuedTask(G_MAX_WORKERS + 2).message >>
    /\ nextId = G_MAX_WORKERS + 3
    /\ l_messageQueue = <<>> /\ l_newMessages = <<>> /\ l_messagesToHandle = <<>>
    /\ since_last_time = 0
    /\ dataPolls = 0
    /\ stream = <<>> /\ pollLog = <<>>

NextPrune ==
    \/ TickGoesOn
    \/ TickEnqueue
    \/ TickDrain
    \/ TickDispatch
    \/ \E t \in 1..Len(tasks) : TaskStart(t)
    \/ \E t \in 1..Len(tasks) : TaskFinish(t)

\* The ticks continue, and the pool starts and ends its tasks.
SpecPrune ==
    /\ InitPrune /\ [][NextPrune]_vars
    /\ WF_vars(TickGoesOn) /\ WF_vars(TickEnqueue) /\ WF_vars(TickDrain) /\ WF_vars(TickDispatch)
    /\ WF_vars(\E t \in 1..Len(tasks) : TaskStart(t))
    /\ WF_vars(\E t \in 1..Len(tasks) : TaskFinish(t))

(***************************************************************************)
(* The read loop of a poll, one recv at a time.  The lines the peer floods *)
(* the socket with are server notices, which the classification only       *)
(* prints: one of them in the buffer stands for any number of them.        *)
(***************************************************************************)
InitRead ==
    /\ sock = "open" /\ partial = EmptyBytes /\ login_ok \in BOOLEAN /\ since_login = 0
    /\ sent = <<>> /\ reconnects = <<>> /\ recvd = NoRead
    /\ g_connected = TRUE /\ g_disabled = FALSE /\ g_windowOpen = TRUE
    /\ G_MESSAGE_RATE = 0
    /\ pc = "top" /\ exc = "none"
    /\ l_activeTasks = <<>> /\ l_messageQueue = <<>> /\ l_newMessages = <<>>
    /\ l_messagesToHandle = <<>> /\ since_last_time = Unbound
    /\ tasks = <<>>
    /\ nextId = 1 /\ dataPolls = 0 /\ dropped = <<>>
    /\ stream = <<>> /\ pollLog = <<>>

\* The loop thread sleeps, prunes and enters f_receiveAndParseData: l_buffer = b''.
ReadEnter ==
    /\ pc = "top" /\ g_windowOpen /\ g_connected /\ ~g_disabled
    /\ \E dt \in 0..1 :
         /\ since_login' = Aged(since_login, dt)
         /\ since_last_time' = Aged(since_last_time, dt)
         /\ pollLog' = << ConnOp("read", [Twitch EXCEPT !.since_login = Aged(@, dt)]) >>
    /\ l_activeTasks' = Prune(l_activeTasks)
    /\ recvd' = NoRead /\ dataPolls' = 0
    /\ sent' = <<>> /\ reconnects' = <<>>
    /\ pc' = "reading"
    /\ UNCHANGED << sock, partial, login_ok, globalVars, exc, l_messageQueue, l_newMessages,
                    l_messagesToHandle, tasks, nextId, dropped, stream >>

\* recv returns bytes: they are added to l_buffer and the loop reads again.
\* dataPolls holds the parity of the number of such reads in this poll.
RecvData ==
    /\ pc = "reading" /\ sock = "open"
    /\ recvd' = [data |-> NoticeFrame, end |-> "none"]
    /\ dataPolls' = 1 - dataPolls
    /\ UNCHANGED << sock, partial, login_ok, since_login, sent, reconnects, globalVars,
                    loopVars, tasks, nextId, dropped, parseVars >>

\* recv raises socket.timeout or another exception, or returns no bytes: the
\* loop ends.
RecvLast ==
    /\ pc = "reading"
    /\ \E end \in {"timeout", "error", "closed"} :
         /\ sock # "open" => end = "error"
         /\ recvd' = [data |-> recvd.data, end |-> end]
    /\ pc' = "polled"
    /\ UNCHANGED << sock, partial, login_ok, since_login, sent, reconnects, globalVars,
                    exc, l_activeTasks, l_messageQueue, l_newMessages, l_messagesToHandle,
                    since_last_time, tasks, envVars, parseVars >>

NextRead ==
    \/ ReadEnter
    \/ RecvData
    \/ RecvLast
    \/ RaceFinish
    \/ TickEnqueue
    \/ TickDrain
    \/ TickDispatch

\* The loop thread keeps running: every recv returns or raises.
SpecRead ==
    /\ InitRead /\ [][NextRead]_vars
    /\ WF_vars(RecvData \/ RecvLast)

(***************************************************************************)
(* The task specification: one or two released chat events, among them     *)
(* "!w", whose command has an action that fails, are dispatched to the     *)
(* pool and handled; the loop goes on polling.                             *)
(***************************************************************************)
\* The texts of the released messages: the command with the failing action, as
\* typed and in capitals, a command that succeeds, and no command.
FailTexts == { TextWait, << "!", "W" >>, TextJump, TextNone }

\* The sequences of one or two chat events with these texts, as the drain step
\* of a tick at rate 0 releases them.
ReleasedMessages ==
    { << [username |-> << "V" >>, message |-> a, id |-> 1] >> : a \in FailTexts }
        \cup { << [username |-> << "V" >>, message |-> a, id |-> 1],
                  [username |-> << "V" >>, message |-> b, id |-> 2] >> :
                   a \in FailTexts, b \in FailTexts }

InitFail ==
    /\ sock = "open" /\ partial = EmptyBytes /\ login_ok = TRUE /\ since_login = 0
    /\ sent = <<>> /\ reconnects = <<>> /\ recvd = NoRead
    /\ g_connected = TRUE /\ g_disabled = FALSE /\ g_windowOpen = TRUE
    /\ G_MESSAGE_RATE = 0
    /\ pc = "dispatch" /\ exc = "none"
    /\ l_activeTasks = <<>> /\ l_messageQueue = <<>> /\ l_newMessages = <<>>
    /\ l_messagesToHandle \in ReleasedMessages
    /\ nextId = Len(l_messagesToHandle) + 1
    /\ since_last_time = 0
    /\ tasks = <<>>
    /\ dataPolls = MaxDataPolls /\ dropped = <<>>
    /\ stream = <<>> /\ pollLog = <<>>

NextFail ==
    \/ TickGoesOn
    \/ TickEnqueue
    \/ TickDrain
    \/ TickDispatch
    \/ \E t \in 1..Len(tasks) : TaskStart(t)
    \/ \E t \in 1..Len(tasks) : TaskFinish(t)

SpecFail == InitFail /\ [][NextFail]_vars

(***************************************************************************)
(* Properties                                                              *)
(***************************************************************************)
\* The identities of the chat events of a sequence.
Ids(msgs) == { msgs[i].id : i \in 1..Len(msgs) }

\* The identities of the chat events submitted to the pool.
TaskIds == { tasks[t].message.id : t \in 1..Len(tasks) }

\* The commands of g_commandList whose text is text.
CommandsFor(text) == { c \in 1..Len(g_commandList) : g_commandList[c].chatText = text }

\* Exactly one command has the text, and it has one action.
OneActionCommand(text) ==
    /\ Cardinality(CommandsFor(text)) = 1
    /\ \A c \in CommandsFor(text) : Len(g_commandList[c].actionList) = 1

\* C1: from an empty partial buffer, two successive polls fed the two chunks of a
\* stream of legal frames split inside a frame return together the frames that
\* one poll fed the whole stream returns.
C1_TwoPollSplit ==
    \A k \in 1..(Len(pollLog) - 1) :
        (/\ pollLog[k].before.data = <<>>
         /\ pollLog[k].chunk \o pollLog[k + 1].chunk \in ParseStreams
         /\ pollLog[k].chunk \notin ParseStreams)
        => /\ pollLog[k + 1].exc = "none"
           /\ pollLog[k].frames \o pollLog[k + 1].frames
                = ParseBuffer(EmptyBytes, pollLog[k].chunk \o pollLog[k + 1].chunk).frames

\* C1 case: the partial buffer was emptied by a reassembly (it is an empty list),
\* the next frame arrived split inside, and the poll of its second part raised.
C1_Witness ==
    \E k \in 1..(Len(pollLog) - 1) :
        /\ pollLog[k].before = EmptyList
        /\ pollLog[k].chunk \o pollLog[k + 1].chunk \in ParseFrames
        /\ pollLog[k + 1].exc = "TypeError"

C3_DrainReleasesFloor ==
    [][(pc = "drain" /\ pc' = "dispatch" /\ G_MESSAGE_RATE > 0 /\ l_messageQueue # <<>>)
       => /\ Len(l_messagesToHandle') =
                (since_last_time * Len(l_messageQueue)) \div G_MESSAGE_RATE
          /\ \A i \in 1..Len(l_messagesToHandle') : l_messagesToHandle'[i] = l_messageQueue[i]
          /\ since_last_time' =
                IF (since_last_time * Len(l_messageQueue)) \div G_MESSAGE_RATE > 0 THEN 0
                ELSE since_last_time]_vars

\* C3: at a rate above 0, a drain step on a non-empty backlog of length L whose
\* timestamp is E old releases min(L, floor((E / R) * L)) events, the oldest in
\* order, keeps the rest, and sets the timestamp to now iff floor((E / R) * L)
\* is not 0.
C3_DrainReleasesUpToFloor ==
    [][(pc = "drain" /\ pc' = "dispatch" /\ G_MESSAGE_RATE > 0 /\ l_messageQueue # <<>>)
       => /\ Len(l_messagesToHandle') =
                Min(Len(l_messageQueue),
                    (since_last_time * Len(l_messageQueue)) \div G_MESSAGE_RATE)
          /\ \A i \in 1..Len(l_messagesToHandle') : l_messagesToHandle'[i] = l_messageQueue[i]
          /\ l_messagesToHandle' \o l_messageQueue' = l_messageQueue
          /\ since_last_time' =
                IF (since_last_time * Len(l_messageQueue)) \div G_MESSAGE_RATE > 0 THEN 0
                ELSE since_last_time]_vars

\* C3 case: a drain at a rate above 0 has released a part of the backlog.
C3_Witness ==
    /\ pc = "dispatch" /\ G_MESSAGE_RATE > 0
    /\ l_messagesToHandle # <<>> /\ l_messageQueue # <<>> /\ since_last_time = 0

\* C4: at rate 0, a drain step on a non-empty backlog releases the whole backlog
\* and leaves it empty, whatever the age of the timestamp (bound or not).
C4_RateZeroReleasesAll ==
    [][(pc = "drain" /\ pc' # "drain" /\ G_MESSAGE_RATE = 0 /\ l_messageQueue # <<>>)
       => /\ pc' = "dispatch"
          /\ l_messagesToHandle' = l_messageQueue
          /\ l_messageQueue' = <<>>]_vars

\* C4 case: at rate 0 a drain has released a full backlog at once.
C4_Witness ==
    /\ pc = "dispatch" /\ G_MESSAGE_RATE = 0
    /\ Len(l_messagesToHandle) = G_MAX_QUEUE_LENGTH /\ l_messageQueue = <<>>

\* C5: the active set never holds more than G_MAX_WORKERS tasks.
C5_ActiveWithinCap == Len(l_activeTasks) <= G_MAX_WORKERS

\* C5 case: the dispatch step has left one task more than G_MAX_WORKERS in the
\* active set.
C5_Witness == pc = "top" /\ Len(l_activeTasks) = G_MAX_WORKERS + 1

\* C6: a message refused at the dispatch step is in no backlog, is not among the
\* messages to handle and is never submitted; and the dispatch step can always
\* complete, whatever the state of the tasks.
C6_RefusedIsDroppedForGood ==
    /\ \A i \in 1..Len(dropped) :
          dropped[i].id \notin
              (Ids(l_messageQueue) \cup Ids(l_messagesToHandle) \cup Ids(l_newMessages)
               \cup TaskIds)
    /\ pc = "dispatch" => ENABLED TickDispatch

\* C6 case: a message has been refused, and a later tick has reached its dispatch
\* step with the whole capacity free again.
C6_Witness == dropped # <<>> /\ pc = "dispatch" /\ l_activeTasks = <<>>

C8_PeerCloseReturnsNothing ==
    recvd.end = "closed"
    => /\ reconnects = << 5 >>
       /\ l_newMessages = <<>>
       /\ sent = <<>>
       /\ partial = EmptyBytes

\* C8 case: a poll read a whole PING frame and then the peer's close.
C8_Witness ==
    /\ pc = "enqueue" /\ recvd = [data |-> PingFrame, end |-> "closed"]
    /\ reconnects = << 5 >>

\* C9: the polling loop ends only through the stop signal: no exception ends it.
C9_LoopEndsOnlyByStop == pc # "crashed" /\ exc = "none"

\* C9 case: the peer closed, the connect of the reconnect failed, and the
\* exception ended the loop thread while the window was open.
C9_Witness ==
    /\ pc = "crashed" /\ exc = "ConnectError" /\ recvd.end = "closed" /\ g_windowOpen

\* The actions a task runs for a message text: those of the command with that
\* text, up to and including the first that raises.
RECURSIVE UpToRaise(_, _, _)
UpToRaise(actionList, c, k) ==
    IF k > Len(actionList) THEN <<>>
    ELSE IF actionList[k] = "wait" THEN << << c, k >> >>
    ELSE << << c, k >> >> \o UpToRaise(actionList, c, k + 1)

ExpectedRan(text) ==
    IF CommandsFor(text) = {} THEN <<>>
    ELSE UpToRaise(g_commandList[CHOOSE c \in CommandsFor(text) : TRUE].actionList,
                   CHOOSE c \in CommandsFor(text) : TRUE, 1)

\* The steps of the polling loop.
LoopStep ==
    TickExit \/ TickIdle \/ TickPoll \/ TickEnqueue \/ TickDrain \/ TickKeyExit \/ TickDispatch

\* C10: a failure of an action stays inside its task: no exception leaves a
\* task; every finished task has run the actions its own message calls for,
\* whatever happened in the other tasks; and while a task has failed the polling
\* loop, unless it has ended otherwise, can take its next step.
C10_TaskFailureIsIsolated ==
    /\ \A t \in 1..Len(tasks) : ~tasks[t].escaped
    /\ \A t \in 1..Len(tasks) :
          Done(t) => tasks[t].ran = ExpectedRan(Lower(tasks[t].message.message))
    /\ ((\E t \in 1..Len(tasks) : tasks[t].caught) /\ pc \notin {"crashed", "exited"})
       => ENABLED LoopStep

\* C10 case: two tasks were in flight together; the action of one failed and was
\* caught, the other ran its action, and the loop goes on.
C10_Witness ==
    \E t, u \in 1..Len(tasks) :
        /\ t # u /\ Done(t) /\ Done(u)
        /\ tasks[t].caught /\ ~tasks[u].caught /\ tasks[u].ran = << << 1, 1 >> >>
        /\ { t, u } \subseteq { l_activeTasks[i] : i \in 1..Len(l_activeTasks) }
        /\ pc = "top" /\ exc = "none" /\ g_windowOpen

\* The commands of g_commandList of which a task ran at least one action.
Triggered(t) == { c \in 1..Len(g_commandList) : \E k \in 1..Len(tasks[t].ran) :
                                                   tasks[t].ran[k][1] = c }

\* C11: a finished dispatch task has run the actions of a registered command
\* exactly when the text of its chat event and the text of the command are the
\* same whole string once both are put in lower case: a command text that
\* differs from the message only in letter case is triggered, a message that
\* only contains or starts with the command text is not.
C11_MatchIsCaseNormalizedEquality ==
    \A t \in 1..Len(tasks) :
        Done(t) =>
            Triggered(t) = { c \in 1..Len(g_commandList) :
                               Lower(g_commandList[c].chatText) = Lower(tasks[t].message.message) }

\* C11: a worker has handled the chat message "!H" and run nothing, although
\* the command "!H" is registered.
C11_Witness ==
    \E t \in 1..Len(tasks) :
        /\ Done(t) /\ tasks[t].message.message = << "!", "H" >>
        /\ \E c \in 1..Len(g_commandList) : g_commandList[c].chatText = << "!", "H" >>
        /\ tasks[t].ran = <<>>

\* The frames of a poll whose command token is cmd, in order.
FramesWith(frames, cmd) == SelectSeq(frames, LAMBDA f : f.command = cmd)

\* The step is a poll of the classification specification.
PollStep == pc = "top" /\ pc' # "top"

\* C12: an entry enters the backlog only from the chat events of a poll, and a
\* poll yields as many chat events as its frames with the command PRIVMSG (none
\* when an exception leaves it or the login watchdog fires); frames of any other
\* command (PING, 001, JOIN, NOTICE, the other numerics, unknown commands) add
\* nothing.
C12_OnlyPrivmsgEntersBacklog ==
    [][ /\ Ids(l_messageQueue') \subseteq Ids(l_messageQueue) \cup Ids(l_newMessages)
        /\ PollStep =>
             /\ Len(l_newMessages') = IF exc' = "none" /\ reconnects' = <<>>
                                      THEN Len(FramesWith(pollLog'[1].frames, PRIVMSG))
                                      ELSE 0
             /\ Ids(l_newMessages') = nextId..(nextId' - 1)
        /\ ~PollStep => l_newMessages' \in { l_newMessages, <<>> } ]_vars

\* C12: a poll returned a chat frame and a frame of another command, and the
\* backlog then holds one entry.
C12_Witness ==
    /\ pc = "drain" /\ Len(l_messageQueue) = 1
    /\ Len(pollLog[1].frames) = 2
    /\ Len(FramesWith(pollLog[1].frames, PRIVMSG)) = 1
    /\ \E i \in 1..2 : pollLog[1].frames[i].command \notin { PRIVMSG, PING, RPL_WELCOME }

\* How many frames of the kind what ("PONG", "JOIN") a poll sent.
SentCount(sentLog, what) == Len(SelectSeq(sentLog, LAMBDA x : x = what))

\* C13: a poll that returns has sent exactly one PONG for each PING frame among
\* the frames it classified, and a poll never sends more PONGs than it has PING
\* frames: no other frame is answered with a PONG.
C13_OnePongPerPing ==
    \A k \in 1..Len(pollLog) :
        /\ SentCount(pollLog[k].sent, "PONG") <= Len(FramesWith(pollLog[k].frames, PING))
        /\ pollLog[k].exc = "none" =>
               SentCount(pollLog[k].sent, "PONG") = Len(FramesWith(pollLog[k].frames, PING))

\* C13: a poll classified a PING frame and a frame of another command, sent one
\* PONG and returned.
C13_Witness ==
    /\ pollLog # <<>> /\ pollLog[1].exc = "none" /\ pc = "enqueue"
    /\ Len(pollLog[1].frames) = 2
    /\ Len(FramesWith(pollLog[1].frames, PING)) = 1
    /\ SentCount(sent, "PONG") = 1

Bare(e) == [username |-> e.username, message |-> e.message]

\* The chat events and backlog entries the loop holds.
HeldEvents ==
    { l_newMessages[i] : i \in 1..Len(l_newMessages) }
        \cup { l_messageQueue[i] : i \in 1..Len(l_messageQueue) }

TickPollStep == pc = "top" /\ pc' \in { "enqueue", "crashed" }

\* The frames a poll parses from the bytes rd.data it read on top of the partial
\* buffer part (none when its last read failed).
FramesOfPoll(part, rd) ==
    IF rd.end = "timeout" /\ rd.data # <<>> THEN ParseBuffer(part, rd.data).frames ELSE <<>>

\* Whether the login watchdog finds the connection logged in: it was before the
\* poll or the poll classified a 001 frame, and the poll did not reconnect on a
\* failed read.
LoggedInAtCheck(was, part, rd) ==
    /\ rd.end = "timeout"
    /\ was \/ FramesWith(FramesOfPoll(part, rd), RPL_WELCOME) # <<>>

\* The least age of the connect attempt when the watchdog looks, after a poll
\* that began at the age since: a reconnect on a failed read has just restarted
\* the window.  (The sleep of the tick adds at most one second more.)
AgeAtCheck(since, rd) == IF rd.end = "timeout" THEN since ELSE 0

\* C16: in a poll that reaches the login watchdog, f_reconnect( 0 ) is called,
\* and nothing returned, when the connection is not logged in and more than
\* G_MAX_TIME_TO_WAIT_FOR_LOGIN seconds have passed since the connect attempt;
\* the watchdog reconnects in no other case: not on a logged-in connection and
\* not while the window has not elapsed.
C16_WatchdogAfterWindow ==
    [][ (TickPollStep /\ exc' \notin { "TypeError", "SendError" }) =>
          /\ (/\ ~LoggedInAtCheck(login_ok, partial, recvd')
              /\ AgeAtCheck(since_login, recvd') > G_MAX_TIME_TO_WAIT_FOR_LOGIN)
                 => reconnects' = << 0 >> /\ l_newMessages' = <<>>
          /\ (\E i \in 1..Len(reconnects') : reconnects'[i] = 0)
                 => /\ ~LoggedInAtCheck(login_ok, partial, recvd')
                    /\ AgeAtCheck(since_login, recvd') + 1 > G_MAX_TIME_TO_WAIT_FOR_LOGIN ]_vars

\* C16: a poll that read a chat frame on a connection that never logged in has
\* ended with the watchdog's reconnect.
C16_Witness ==
    /\ pc = "enqueue" /\ reconnects = << 0 >> /\ recvd.end = "timeout" /\ recvd.data # <<>>
    /\ sock = "open" /\ ~login_ok /\ since_login = 0

\* C17: a poll whose read fails with an error other than a timeout reconnects
\* once, with a delay of 1 second, and returns nothing: no chat event and no
\* answer to a frame read before the error; the error of the read does not leave
\* the poll, which returns to the loop whenever its reconnect has connected.
C17_ReadErrorReconnects ==
    recvd.end = "error"
    => /\ reconnects = << 1 >>
       /\ l_newMessages = <<>>
       /\ sent = <<>>
       /\ exc \in { "none", "ConnectError" }
       /\ sock = "open" => exc = "none" /\ pc = "enqueue"

\* C17: a poll read a whole PING frame and then hit a read error; it has
\* reconnected and returned to the loop.
C17_Witness ==
    /\ pc = "enqueue" /\ recvd = [data |-> PingFrame, end |-> "error"]
    /\ reconnects = << 1 >> /\ exc = "none"

\* The step is a connect request served by f_handleConnect: the loop is where it
\* was and the connection has changed otherwise than by ageing.
ConnectStep ==
    /\ pc = "top" /\ pc' = "top"
    /\ \/ << sock, partial, login_ok >>' # << sock, partial, login_ok >>
       \/ since_login' < since_login

ChatTexts == { TextJump, TextWait, TextNone }

\* The texts of the chat frames among the lines of a byte stream, in the order
\* of the stream; e is the place of the first line feed.
RECURSIVE ChatTextsIn(_)
ChatTextsAt(bytes, e) ==
    IF e > Len(bytes) THEN <<>>
    ELSE (IF \E t \in ChatTexts : SubSeq(bytes, 1, e) = ChatFrame(t)
          THEN << CHOOSE t \in ChatTexts : SubSeq(bytes, 1, e) = ChatFrame(t) >>
          ELSE <<>>) \o ChatTextsIn(From(bytes, e))
ChatTextsIn(bytes) == ChatTextsAt(bytes, IndexOf(bytes, {LF}, 1))

\* The identities of the chat events in the pipeline, from the pool back to the
\* poll: the tasks in the order of their submission, the released messages, the
\* backlog, the chat events of the last poll.
PipelineIds ==
    [t \in 1..Len(tasks) |-> tasks[t].message.id]
        \o [i \in 1..Len(l_messagesToHandle) |-> l_messagesToHandle[i].id]
        \o [i \in 1..Len(l_messageQueue) |-> l_messageQueue[i].id]
        \o [i \in 1..Len(l_newMessages) |-> l_newMessages[i].id]

Increasing(s) == \A i \in 1..(Len(s) - 1) : s[i] < s[i + 1]

\* C19: the chat events of a poll carry the texts of the chat frames of the
\* bytes parsed (the partial buffer followed by the bytes read) in the order of
\* the byte stream, and in every state the events submitted to the pool, those
\* released, those in the backlog and those of the last poll are in the order of
\* their arrival: eviction and refusal remove events, nothing reorders them.
C19_OrderIsPreserved ==
    [][ /\ Increasing(PipelineIds')
        /\ (TickPollStep /\ l_newMessages' # <<>>) =>
             /\ [i \in 1..Len(l_newMessages') |-> l_newMessages'[i].message]
                    = ChatTextsIn(partial.data \o recvd'.data)
             /\ Ids(l_newMessages') = nextId..(nextId' - 1) ]_vars

\* C19: the two chat frames of one poll, "!w" then "!J", were submitted to the
\* pool in that order.
C19_Witness ==
    /\ Len(tasks) >= 2
    /\ \E t \in 1..(Len(tasks) - 1) :
          /\ tasks[t].message.message = TextWait /\ tasks[t + 1].message.message = TextJump
          /\ tasks[t + 1].message.id = tasks[t].message.id + 1

\* The partial buffer after poll k of the parser specification.
PartialAfter(k) == IF k < Len(pollLog) THEN pollLog[k + 1].before ELSE partial

\* The bytes poll k had to parse: the partial buffer before it followed by the
\* bytes it read.
Accumulated(k) == pollLog[k].before.data \o pollLog[k].chunk

\* C20: after a poll whose accumulated buffer (the partial buffer followed by
\* the bytes read) holds no complete frame, the partial buffer holds exactly
\* that accumulated buffer, however many such polls follow each other.
C20_UnframedBytesAreKept ==
    \A k \in 1..Len(pollLog) :
        FindIter(Accumulated(k), 1) = <<>> => PartialAfter(k).data = Accumulated(k)

\* C20 case: three polls in a row found no complete frame; the second left the
\* partial buffer as a list, and the third raised and kept none of its bytes.
C20_Witness ==
    /\ Len(pollLog) >= 3
    /\ \E k \in 3..Len(pollLog) :
          /\ \A j \in (k - 2)..k : FindIter(Accumulated(j), 1) = <<>>
          /\ pollLog[k].before.typ = "list"
          /\ pollLog[k].exc = "TypeError"
          /\ PartialAfter(k).data # Accumulated(k)

\* The matches of the accumulated buffer of poll k.
MatchesOf(k) == FindIter(Accumulated(k), 1)

\* C21: after a poll whose accumulated buffer holds at least one complete frame,
\* the partial buffer holds exactly the bytes after the end of the last complete
\* frame (none when the buffer ends with it), and the poll has returned every
\* complete frame of the buffer.
C21_RestAfterLastFrameIsKept ==
    \A k \in 1..Len(pollLog) :
        MatchesOf(k) # <<>> =>
            /\ PartialAfter(k).data = From(Accumulated(k), MatchesOf(k)[Len(MatchesOf(k))].end)
            /\ pollLog[k].frames = Frames(MatchesOf(k))

\* C21 case: two polls found no complete frame and left the partial buffer as a
\* list; the poll that read the rest of the frame raised, returned nothing and
\* kept the old partial buffer.
C21_Witness ==
    \E k \in 1..Len(pollLog) :
        /\ MatchesOf(k) # <<>>
        /\ pollLog[k].before.typ = "list" /\ pollLog[k].before.data # <<>>
        /\ pollLog[k].exc = "TypeError"
        /\ pollLog[k].frames = <<>>
        /\ PartialAfter(k) = pollLog[k].before

\* The moves of the loop from one step of an iteration to the next: the stop
\* check (which ends the loop or not), the poll, the enqueue, the drain, the
\* emergency key check and the dispatch pass; an exception ends the thread.
TickOrder ==
    { << "top", "exited" >>, << "top", "enqueue" >>, << "top", "crashed" >>,
      << "enqueue", "drain" >>,
      << "drain", "dispatch" >>, << "drain", "crashed" >>,
      << "dispatch", "top" >>, << "dispatch", "exited" >> }

\* C22: the loop goes through the steps of a tick in the order stop check, poll,
\* enqueue, drain, dispatch, each once: the chat events of a poll change only in
\* the poll and the enqueue, the backlog only in the enqueue and the drain, the
\* released messages only in the drain and the dispatch, and tasks are submitted
\* only in the dispatch; when the drain runs the events of the tick are in the
\* backlog, and when the dispatch runs the drain is done.
C22_TickStepsInOrder ==
    [][ /\ pc' # pc => << pc, pc' >> \in TickOrder
        /\ l_newMessages' # l_newMessages =>
               << pc, pc' >> \in { << "top", "enqueue" >>, << "enqueue", "drain" >> }
        /\ l_messageQueue' # l_messageQueue =>
               << pc, pc' >> \in { << "enqueue", "drain" >>, << "drain", "dispatch" >> }
        /\ l_messagesToHandle' # l_messagesToHandle =>
               << pc, pc' >> \in { << "drain", "dispatch" >>, << "dispatch", "top" >> }
        /\ Len(tasks') # Len(tasks) => << pc, pc' >> = << "dispatch", "top" >>
        /\ pc' \in { "drain", "dispatch" } => l_newMessages' = <<>> ]_vars

\* C22: the chat event received by the poll of a tick has been enqueued and
\* released by the drain of that tick, and the dispatch pass is about to run.
C22_Witness ==
    /\ pc = "dispatch" /\ l_newMessages = <<>>
    /\ \E i \in 1..Len(l_messagesToHandle) : l_messagesToHandle[i].id = nextId - 1
    /\ nextId - 1 \notin TaskIds

\* How far a task is: queued in the pool, running in a worker thread, done.
Progress(state) == IF state = "queued" THEN 0 ELSE IF state = "running" THEN 1 ELSE 2

\* C23: once the window is closed, the loop does nothing but leave at its stop
\* check, and it does leave; a loop that has left (by the stop check or by the
\* emergency key check) stays so and submits no task; no task is ever cancelled
\* or removed: the tasks submitted keep their messages and only move on from
\* queued to running to done.
C23_StopEndsLoopOnly ==
    /\ [][ /\ (pc = "top" /\ ~g_windowOpen) =>
                 /\ pc' \in { "top", "exited" }
                 /\ UNCHANGED << twitchVars, l_activeTasks, l_messageQueue, l_newMessages,
                                 l_messagesToHandle, since_last_time >>
           /\ pc = "exited" => pc' = "exited" /\ Len(tasks') = Len(tasks)
           /\ Len(tasks') >= Len(tasks)
           /\ \A t \in 1..Len(tasks) :
                 /\ tasks'[t].message = tasks[t].message
                 /\ Progress(tasks'[t].state) >= Progress(tasks[t].state) ]_vars
    /\ ~g_windowOpen ~> pc = "exited"

\* C23: the window was closed and the loop has left at its stop check with tasks
\* still in its active list; every task submitted has finished.
C23_Witness ==
    /\ pc = "exited" /\ ~g_windowOpen
    /\ tasks # <<>> /\ \A t \in 1..Len(tasks) : Done(t)
    /\ l_activeTasks # <<>>

\* The step is the drain step of a tick.
DrainStep == pc = "drain" /\ pc' # "drain"

\* C24: with a rate above 0, a drain step on a non-empty backlog that releases
\* nothing leaves the backlog and the last-drain timestamp as they were; a drain
\* step at which the elapsed time has reached the rate releases the whole
\* backlog; and while the ticks continue and time advances, a non-empty backlog
\* leads to a drain step that releases something.
C24_TimeDebtIsKept ==
    /\ [][ (DrainStep /\ G_MESSAGE_RATE > 0 /\ l_messageQueue # <<>>) =>
              /\ l_messagesToHandle' = <<>> =>
                     /\ l_messageQueue' = l_messageQueue
                     /\ since_last_time' = since_last_time
              /\ since_last_time >= G_MESSAGE_RATE =>
                     /\ l_messagesToHandle' = l_messageQueue
                     /\ l_messageQueue' = <<>> ]_vars
    /\ l_messageQueue # <<>> ~> l_messagesToHandle # <<>>

\* C24: a drain step has released nothing from a non-empty backlog, and the
\* time since the last release has gone on accumulating.
C24_Witness ==
    /\ pc = "dispatch" /\ G_MESSAGE_RATE > 0
    /\ l_messageQueue # <<>> /\ l_messagesToHandle = <<>>
    /\ since_last_time > 0

\* C25: while the loop thread is inside a poll, no step of another thread
\* changes the socket, the partial buffer, the login flag or the login timestamp.
C25_ConnectionIsLoopConfined ==
    [][ (pc = "polled" /\ pc' = "polled") =>
            UNCHANGED << sock, partial, login_ok, since_login >> ]_vars

\* C25: the Connect handler has replaced the connection between the reads and
\* the processing of one poll, and the 001 read from the old connection has set
\* the login flag of the new one, from which nothing has been read.
C25_Witness ==
    /\ Len(pollLog) = 3
    /\ pollLog[1].op = "read" /\ pollLog[2].op = "connect" /\ pollLog[3].op = "finish"
    /\ recvd.data = WelcomeFrame
    /\ ~pollLog[1].tw.login_ok /\ ~pollLog[2].tw.login_ok
    /\ login_ok /\ sent = << "JOIN" >>

\* C26: in every state the number of tasks that are running in the pool is at
\* most G_MAX_WORKERS.
C26_RunningWithinWorkers == Cardinality(Running) <= G_MAX_WORKERS

\* C26: G_MAX_WORKERS tasks are running and a task that was accepted after them
\* waits in the pool.
C26_Witness ==
    /\ Cardinality(Running) = G_MAX_WORKERS
    /\ \E t \in 1..Len(tasks) :
         /\ tasks[t].state = "queued"
         /\ \A u \in Running : u < t
\* C27: in every state between two steps of the loop the backlog holds at most
\* G_MAX_QUEUE_LENGTH events.
C27_BacklogWithinMaximum == Len(l_messageQueue) <= G_MAX_QUEUE_LENGTH

\* C27: the enqueue step has cut a backlog that had grown over the maximum: the
\* backlog is full and its oldest event is gone without having been released.
C27_Witness ==
    /\ pc = "drain" /\ Len(l_messageQueue) = G_MAX_QUEUE_LENGTH
    /\ tasks = <<>> /\ dropped = <<>>
    /\ l_messageQueue[1].id > 1
EmptyDrainSetsTimestamp ==
    (DrainStep /\ l_messageQueue = <<>>) =>
        /\ l_messagesToHandle' = <<>> /\ l_messageQueue' = <<>>
        /\ since_last_time' = 0

\* The first events after an empty backlog are about to be enqueued, at a rate
\* above 0.
FirstArrival ==
    /\ pc = "enqueue" /\ l_messageQueue = <<>> /\ l_newMessages # <<>>
    /\ G_MESSAGE_RATE > 0 /\ since_last_time # Unbound

EmptyPollStep == TickPollStep /\ recvd' = [data |-> <<>>, end |-> "timeout"]

\* C29: a poll whose first read times out with no bytes returns nothing and
\* sends nothing; the read makes no reconnect (the only one such a poll can make
\* is the login watchdog's, on a connection that is not logged in), and without
\* it the socket, the partial buffer and the login flag are after the poll what
\* they were before, and no exception leaves the poll.
C29_EmptyReadChangesNothing ==
    [][ EmptyPollStep =>
          /\ l_newMessages' = <<>> /\ sent' = <<>>
          /\ \A i \in 1..Len(reconnects') : reconnects'[i] = 0
          /\ reconnects' # <<>> => ~login_ok
          /\ reconnects' = <<>> =>
                /\ sock' = sock /\ partial' = partial /\ login_ok' = login_ok
                /\ exc' = "none" /\ pc' = "enqueue" ]_vars

\* C29: such a poll has returned on a connection whose partial buffer holds the
\* bytes of an unfinished frame, and they are still there.
C29_Witness ==
    /\ pc = "enqueue" /\ recvd = [data |-> <<>>, end |-> "timeout"]
    /\ reconnects = <<>> /\ l_newMessages = <<>>
    /\ partial.data # <<>> /\ sock = "open"

\* C31: the poll step of a processing tick leaves no completed task in the
\* active set; a dispatch step whose check admits submits the first released
\* message; and while the ticks continue and the tasks end, an active set that
\* refuses leads to a dispatch step at which the check admits again.
C31_CapacityIsRecovered ==
    /\ [][ /\ TickPollStep =>
                 /\ \A i \in 1..Len(l_activeTasks') : tasks[l_activeTasks'[i]].state # "done"
                 /\ l_activeTasks' = SelectSeq(l_activeTasks, LAMBDA t : tasks[t].state # "done")
           /\ (pc = "dispatch" /\ pc' = "top" /\ Admits(l_activeTasks)
                 /\ l_messagesToHandle # <<>>) =>
                 /\ Len(tasks') > Len(tasks)
                 /\ tasks'[Len(tasks) + 1].message = l_messagesToHandle[1]
                 /\ Len(dropped') < Len(dropped) + Len(l_messagesToHandle) ]_vars
    /\ ~Admits(l_activeTasks) ~> (pc = "dispatch" /\ Admits(l_activeTasks))

\* C31: after a refusal the tasks have ended and have been pruned, and a message
\* released in a later tick has been accepted.
C31_Witness ==
    /\ dropped # <<>> /\ pc = "top"
    /\ l_activeTasks # <<>>
    /\ \A i \in 1..Len(l_activeTasks) :
         tasks[l_activeTasks[i]].message.id > dropped[Len(dropped)].id

\* C32: every poll terminates: a loop thread that is in the read loop of a poll
\* leaves it, whatever the peer sends.
C32_EveryPollTerminates == (pc = "reading") ~> (pc = "polled")

\* C32: the read loop has read bytes twice or more in one poll and is about to
\* read again: nothing but the peer's silence, an error or a close ends it.
C32_Witness ==
    /\ pc = "reading" /\ recvd.data # <<>> /\ dataPolls = 0
    /\ sock = "open"

\* C33: whenever the drain step is about to compute the release fraction from
\* the last-drain timestamp (the backlog is not empty and the rate is not 0),
\* the timestamp has been assigned.
C33_TimestampIsBoundWhenRead ==
    (pc = "drain" /\ l_messageQueue # <<>> /\ G_MESSAGE_RATE # 0) => since_last_time # Unbound

\* C33: chat events arrived in the first processing tick after connecting, at a
\* rate above 0: the drain step read last_time unassigned and the exception has
\* ended the loop thread with the events still in the backlog.
C33_Witness ==
    /\ pc = "crashed" /\ exc = "UnboundLocalError"
    /\ since_last_time = Unbound /\ G_MESSAGE_RATE # 0
    /\ l_messageQueue # <<>> /\ l_messageQueue[1].id = 1
    /\ tasks = <<>>

\* C34: a drain step releases no more entries than the backlog holds, also when
\* the elapsed time is longer than the rate, and the released entries followed by
\* the backlog that is left are the backlog before the step.
C34_DrainConserves ==
    [][ DrainStep =>
          /\ Len(l_messagesToHandle') <= Len(l_messageQueue)
          /\ l_messagesToHandle' \o l_messageQueue' = l_messageQueue
          /\ (G_MESSAGE_RATE > 0 /\ since_last_time > G_MESSAGE_RATE /\ pc' = "dispatch") =>
                /\ l_messagesToHandle' = l_messageQueue
                /\ l_messageQueue' = <<>> ]_vars

\* C34: the drain step is about to run on a backlog for which the computed count
\* is more than the backlog holds.
C34_Witness ==
    /\ pc = "drain" /\ l_messageQueue # <<>>
    /\ G_MESSAGE_RATE > 0 /\ since_last_time # Unbound
    /\ DrainCount(l_messageQueue, G_MESSAGE_RATE, since_last_time) > Len(l_messageQueue)

\* No chat event is twice in the sequence.
NoDuplicate(msgs) == Cardinality(Ids(msgs)) = Len(msgs)

\* C35: no chat event is submitted to the pool twice or is twice in the backlog;
\* an event is in at most one of the backlog, the released messages, the pool and
\* the refused messages; and a dispatch step makes one task for each released
\* message that it admits, and none for the others.
C35_SubmittedAtMostOnce ==
    /\ [](/\ Cardinality(TaskIds) = Len(tasks)
          /\ NoDuplicate(l_messageQueue) /\ NoDuplicate(l_messagesToHandle)
          /\ Ids(l_messageQueue) \cap Ids(l_messagesToHandle) = {}
          /\ Ids(l_messageQueue) \cap TaskIds = {}
          /\ Ids(l_messagesToHandle) \cap TaskIds = {}
          /\ Ids(l_newMessages) \cap (Ids(l_messageQueue) \cup Ids(l_messagesToHandle) \cup TaskIds) = {})
    /\ [][ (pc = "dispatch" /\ pc' = "top") =>
              /\ TaskIds' \cup Ids(dropped') = TaskIds \cup Ids(dropped) \cup Ids(l_messagesToHandle)
              /\ Len(tasks') + Len(dropped')
                    = Len(tasks) + Len(dropped) + Len(l_messagesToHandle)
              /\ l_messagesToHandle' = <<>> ]_vars

\* C35: a drain at a rate above 0 has released the older part of the backlog;
\* the released event is in the pool as one task and the rest is still in the
\* backlog.
C35_Witness ==
    /\ pc = "top" /\ G_MESSAGE_RATE > 0
    /\ Len(tasks) = 1 /\ l_messageQueue # <<>>
    /\ tasks[1].message.id < l_messageQueue[1].id
    /\ dropped = <<>>

\* The bytes read by the first k polls of the parser specification.
RECURSIVE DeliveredUpTo(_)
DeliveredUpTo(k) == IF k = 0 THEN <<>> ELSE DeliveredUpTo(k - 1) \o pollLog[k].chunk

\* The frames returned by the first k polls, in the order of their return.
RECURSIVE ReturnedUpTo(_)
ReturnedUpTo(k) == IF k = 0 THEN <<>> ELSE ReturnedUpTo(k - 1) \o pollLog[k].frames

\* C36: however a stream of legal frames is cut into polls, no poll raises, the
\* frames returned so far are those that are complete in the bytes delivered so
\* far, each once and in stream order, and the partial buffer is a byte sequence
\* (or empty).
C36_EveryFrameOnceInOrder ==
    /\ \A k \in 1..Len(pollLog) : pollLog[k].exc = "none"
    /\ ReturnedUpTo(Len(pollLog))
          = ParseBuffer(EmptyBytes, DeliveredUpTo(Len(pollLog))).frames
    /\ partial.typ = "bytes" \/ partial.data = <<>>

\* C36: the polls have delivered a whole frame in three or more pieces; the
\* partial buffer became a list on the way, the poll that brought the end of the
\* frame raised, and the frame has not been returned.
C36_Witness ==
    /\ Len(pollLog) >= 3
    /\ pollLog[Len(pollLog)].exc = "TypeError"
    /\ \A k \in 1..Len(pollLog) : pollLog[k].frames = <<>>
    /\ ParseBuffer(EmptyBytes, DeliveredUpTo(Len(pollLog))).frames # <<>>
    /\ partial.typ = "list" /\ partial.data # <<>>

\* The watchdog's reconnect ( f_reconnect( 0 ) ) is among the reconnects.
WatchdogFired(delays) == \E i \in 1..Len(delays) : delays[i] = 0

\* C37: a poll on a logged-in connection, and a poll whose frames include the
\* 001 numeric, makes no watchdog reconnect, whatever the age of the connect
\* attempt; and a logged-in connection stays logged in through every poll that
\* does not reconnect after a failed read.
C37_WatchdogSparesLoggedIn ==
    [][ TickPollStep =>
          /\ login_ok => ~WatchdogFired(reconnects')
          /\ FramesWith(FramesOfPoll(partial, recvd'), RPL_WELCOME) # <<>>
                 => ~WatchdogFired(reconnects')
          /\ (login_ok /\ reconnects' = <<>>) => login_ok' /\ sock' = sock ]_vars

\* C37: the 001 numeric came in a poll that began after the login window had
\* elapsed; the poll logged in, sent the JOIN and did not reconnect.
C37_Witness ==
    /\ pc = "enqueue" /\ recvd = [data |-> WelcomeFrame, end |-> "timeout"]
    /\ since_login > G_MAX_TIME_TO_WAIT_FOR_LOGIN
    /\ login_ok /\ sent = << "JOIN" >> /\ reconnects = <<>>

\* The action lists of one or two actions.
ShortActionLists ==
    { << a >> : a \in {"keyboard", "wait"} }
        \cup { << a, b >> : a \in {"keyboard", "wait"}, b \in {"keyboard", "wait"} }

\* The registries of two commands that have the same text.
RepeatRegistries(text) ==
    { << [chatText |-> text, actionList |-> a], [chatText |-> text, actionList |-> b] >> :
          a \in ShortActionLists, b \in ShortActionLists }

\* The actions of such a registry in the order of the registry, each with its
\* command and its place in the command.
ActionsInOrder(reg) ==
    [i \in 1..Len(reg[1].actionList) |-> << 1, i >>]
        \o [i \in 1..Len(reg[2].actionList) |-> << 2, i >>]

\* The places in ActionsInOrder(reg) of the actions that fail.
FailingPlaces(reg) ==
    { i \in 1..Len(ActionsInOrder(reg)) :
          f_process(reg[ActionsInOrder(reg)[i][1]].actionList[ActionsInOrder(reg)[i][2]]) = "raise" }

\* The place of the first action that fails; the number of actions when none does.
LastPlace(reg) ==
    IF FailingPlaces(reg) = {} THEN Len(ActionsInOrder(reg))
    ELSE CHOOSE i \in FailingPlaces(reg) : \A j \in FailingPlaces(reg) : i <= j

\* C38: a task in which an action failed is done and no exception has left it,
\* so that the prune removes it; the action invoked last is the one that failed;
\* the actions of its command before it were each invoked once, in order, and
\* nothing of that command after it and nothing of a later command was invoked.
\* And whenever a task ends, then for every registry of two commands with the
\* text of its message, f_handleMessage invokes the actions in registry order up
\* to the first that fails, and catches the failure.
C38_FailureEndsTheTask ==
    /\ [](\A t \in 1..Len(tasks) :
            tasks[t].caught =>
                LET ran == tasks[t].ran
                    c == ran[Len(ran)][1]
                    k == ran[Len(ran)][2]
                IN  /\ Done(t) /\ ~tasks[t].escaped
                    /\ \A i \in 1..Len(Prune(l_activeTasks)) : Prune(l_activeTasks)[i] # t
                    /\ f_process(g_commandList[c].actionList[k]) = "raise"
                    /\ Len(ran) >= k
                    /\ \A j \in 1..k : ran[Len(ran) - k + j] = << c, j >>
                    /\ \A i \in 1..(Len(ran) - k) : ran[i][1] < c
                    /\ g_commandList[c].chatText = Lower(tasks[t].message.message))
    /\ [][ \A t \in 1..Len(tasks) :
              (tasks[t].state = "running" /\ tasks'[t].state = "done") =>
                  \A reg \in RepeatRegistries(Lower(tasks[t].message.message)) :
                      LET h == f_handleMessage(tasks[t].message, reg)
                      IN  /\ h.ran = SubSeq(ActionsInOrder(reg), 1, LastPlace(reg))
                          /\ h.caught = (FailingPlaces(reg) # {})
                          /\ ~h.escaped ]_vars

\* C38: the task of a "!w" message has run the first action of the command, the
\* second has failed and the third has not run; the task is done and the prune
\* of a later tick has removed it from the active set.
C38_Witness ==
    \E t \in 1..Len(tasks) :
        /\ tasks[t].message.message = TextWait
        /\ Done(t) /\ tasks[t].caught
        /\ tasks[t].ran = << << 2, 1 >>, << 2, 2 >> >>
        /\ Len(g_commandList[2].actionList) > 2
        /\ \A i \in 1..Len(l_activeTasks) : l_activeTasks[i] # t
        /\ pc = "enqueue"

=============================================================================
